---- MODULE Spec2Model ----
(***************************************************************************)
(* A model of the theming core of the soho-website Django project          *)
(* (apps/core/models.py, apps/core/context_processors.py): the Theme,      *)
(* ThemeStyle, ThemeOverlay and SiteSettings tables, the statements their  *)
(* save()/load() methods run, and the style resolution; and of the Event,  *)
(* Promotion and MenuItem rows of apps/events, apps/promotions and         *)
(* apps/menu with their publication workflow and derived properties.       *)
(*                                                                         *)
(* The database runs in Django's default autocommit mode (no ATOMIC_       *)
(* REQUESTS, no transaction.atomic in the source): every ORM statement is   *)
(* one atomic step that every other connection sees at once.               *)
(*                                                                         *)
(* Encodings: a table is a function from the primary keys that exist to    *)
(* their rows; a NULL foreign key and an unsaved instance's pk are 0;      *)
(* a nullable date is <<>> (NULL) or <<d>>; a blank CharField is "".       *)
(***************************************************************************)
EXTENDS Integers, Sequences, FiniteSets, TLC

VARIABLES
    themeTable,     \* core_theme: pk -> [name, is_active, base_style, theme_directory]
    thObj,          \* per process: the in-memory Theme instance it holds (or NoObj)
    thPc,           \* per process: "idle", "saving" (inside Theme.save), "done"
    thSnap          \* per process: the active pks when its running save() started

themeVars == <<themeTable, thObj, thPc, thSnap>>

VARIABLES
    settingsTable,  \* core_sitesettings: pk -> [restaurant_name, active_theme, active_overlay]
    ssObj,          \* per process: the in-memory SiteSettings instance it holds (or NoObj)
    ssPc            \* per process: where it is inside SiteSettings.load()/save()

settingsVars == <<settingsTable, ssObj, ssPc>>

VARIABLES
    styleTable,     \* core_themestyle: pk -> the 11 style fields
    overlayTable,   \* core_themeoverlay: pk -> [style, valid_from, valid_to, is_active]
    today,          \* timezone.now().date(), as a day number
    out             \* the last value returned by a style / overlay / resolution call

dataVars == <<styleTable, overlayTable, today, out>>

VARIABLES
    catalog         \* the content tables by model: events_event, promotions_promotion,
                    \* menu_menuitem; each is pk -> row

vars == <<themeVars, settingsVars, dataVars, catalog>>

----------------------------------------------------------------------------
(* Bounds *)

NumProcs == 2       \* concurrent requests / shells
MaxThemes == 2      \* Theme rows that may be created
MaxDay == 2         \* the days run from 0 to MaxDay
MaxCapacity == 2    \* max_capacity runs from 0 to MaxCapacity
MaxPrice == 2       \* price runs from 1 to MaxPrice

Procs == 1..NumProcs
ThemePks == 1..MaxThemes
ThemeNames == 1..MaxThemes      \* a name is modelled by its rank in the ordering

EmptyTable == [pk \in {} |-> 0]

\* The content models whose rows carry a publication status and a date range
EventModels == {"Event", "Promotion"}

EmptyCatalog == [m \in EventModels \cup {"MenuItem"} |-> EmptyTable]
NoObj == [pk |-> 0 - 1]         \* the process holds no instance

Max(S) == CHOOSE x \in S : \A y \in S : y <= x
Min(S) == CHOOSE x \in S : \A y \in S : x <= y

\* AutoField: the next primary key of a table
NextPk(table) == IF DOMAIN table = {} THEN 1 ELSE Max(DOMAIN table) + 1

----------------------------------------------------------------------------
(* Theme *)

\* A Theme() constructed in memory, not saved yet (pk None)
NewTheme(nm, flag) ==
    [pk |-> 0, name |-> nm, is_active |-> flag, base_style |-> 0,
     theme_directory |-> "classic"]

ThemeRowOf(o) ==
    [name |-> o.name, is_active |-> o.is_active, base_style |-> o.base_style,
     theme_directory |-> o.theme_directory]

ThemeObjOf(table, pk) ==
    [pk |-> pk, name |-> table[pk].name, is_active |-> table[pk].is_active,
     base_style |-> table[pk].base_style,
     theme_directory |-> table[pk].theme_directory]

ActiveThemes(table) == {pk \in DOMAIN table : table[pk].is_active}

\* Theme.objects.filter(is_active=True).exclude(pk=self.pk).update(is_active=False)
ClearOtherActive(table, o) ==
    [pk \in DOMAIN table |->
        IF table[pk].is_active /\ pk # o.pk
        THEN [table[pk] EXCEPT !.is_active = FALSE]
        ELSE table[pk]]

\* the other rows cleared on every save, whatever the flag of the instance
ThemeSaveClearAlways(table, o) == ClearOtherActive(table, o)

\* Theme.save, lines 266-267: the statement that runs before super().save()
ThemeSaveForgetClear(table, o) == table
ThemeSaveClear(table, o) ==
    IF o.is_active THEN ClearOtherActive(table, o) ELSE table

\* models.Model.save: UPDATE the row with this pk, INSERT when there is none
\* (an unsaved instance gets the next pk)
ThemePkOnSave(table, o) ==
    IF o.pk = 0 THEN NextPk(table) ELSE o.pk

ThemeSuperSave(table, o) ==
    LET pk == ThemePkOnSave(table, o) IN
    [p \in DOMAIN table \cup {pk} |-> IF p = pk THEN ThemeRowOf(o) ELSE table[p]]

\* the theme that SiteSettings.active_theme refers to
get_active_theme_by_reference(table) ==
    IF 1 \in DOMAIN settingsTable
       /\ settingsTable[1].active_theme \in DOMAIN table
    THEN settingsTable[1].active_theme ELSE 0

\* Theme.get_active_theme: .filter(is_active=True).first(), Meta.ordering = ['name'];
\* 0 stands for None
get_active_theme(table) ==
    LET act == ActiveThemes(table) IN
    IF act = {} THEN 0
    ELSE CHOOSE pk \in act : \A q \in act : table[pk].name <= table[q].name

Idle(p) == thPc[p] # "saving"

\* unsaved instances held in memory
Unsaved == {p \in Procs : thObj[p].pk = 0}

\* name is unique (validated by the admin form before save)
NamesInUse(p) ==
    {themeTable[pk].name : pk \in DOMAIN themeTable}
        \cup {thObj[q].name : q \in Unsaved \ {p}}

\* Theme(name=..., is_active=...)
ThemeNew(p, nm, flag) ==
    /\ Idle(p)
    /\ nm \notin NamesInUse(p)
    /\ Cardinality(DOMAIN themeTable) + Cardinality(Unsaved \ {p}) < MaxThemes
    /\ thObj' = [thObj EXCEPT ![p] = NewTheme(nm, flag)]
    /\ thPc' = [thPc EXCEPT ![p] = "idle"]
    /\ UNCHANGED <<themeTable, thSnap>>

\* Theme.objects.get(pk=pk)
ThemeGet(p, pk) ==
    /\ Idle(p)
    /\ pk \in DOMAIN themeTable
    /\ thObj' = [thObj EXCEPT ![p] = ThemeObjOf(themeTable, pk)]
    /\ thPc' = [thPc EXCEPT ![p] = "idle"]
    /\ UNCHANGED <<themeTable, thSnap>>

\* theme.is_active = b (in memory only)
ThemeSetActive(p, b) ==
    /\ Idle(p)
    /\ thObj[p] # NoObj
    /\ thObj[p].is_active # b
    /\ thObj' = [thObj EXCEPT ![p].is_active = b]
    /\ thPc' = [thPc EXCEPT ![p] = "idle"]
    /\ UNCHANGED <<themeTable, thSnap>>

\* Theme.save() run to its end with no other statement in between
ThemeSave(p) ==
    /\ Idle(p)
    /\ thObj[p] # NoObj
    /\ LET o == thObj[p]
           cleared == ThemeSaveClear(themeTable, o)
       IN /\ themeTable' = ThemeSuperSave(cleared, o)
          /\ thObj' = [thObj EXCEPT ![p].pk = ThemePkOnSave(cleared, o)]
          /\ thPc' = [thPc EXCEPT ![p] = "done"]
    /\ UNCHANGED thSnap

\* Theme.save(), first statement (lines 266-267)
ThemeSaveBegin(p) ==
    /\ Idle(p)
    /\ thObj[p] # NoObj
    /\ thSnap' = [thSnap EXCEPT ![p] = ActiveThemes(themeTable)]
    /\ themeTable' = ThemeSaveClear(themeTable, thObj[p])
    /\ thPc' = [thPc EXCEPT ![p] = "saving"]
    /\ UNCHANGED thObj

\* Theme.save(), second statement: super().save() (line 268)
ThemeSaveWrite(p) ==
    /\ thPc[p] = "saving"
    /\ themeTable' = ThemeSuperSave(themeTable, thObj[p])
    /\ thObj' = [thObj EXCEPT ![p].pk = ThemePkOnSave(themeTable, thObj[p])]
    /\ thPc' = [thPc EXCEPT ![p] = "done"]
    /\ thSnap' = [thSnap EXCEPT ![p] = {}]

ThemeInit ==
    /\ themeTable = EmptyTable
    /\ thObj = [p \in Procs |-> NoObj]
    /\ thPc = [p \in Procs |-> "idle"]
    /\ thSnap = [p \in Procs |-> {}]

----------------------------------------------------------------------------
(* SiteSettings *)

RestaurantNames == {"Your Restaurant", "Soho"}

\* the field defaults (restaurant_name line 367; the foreign keys are null)
DefaultSettings ==
    [pk |-> 0, restaurant_name |-> "Your Restaurant", active_theme |-> 0,
     active_overlay |-> 0]

SettingsRowOf(o) ==
    [restaurant_name |-> o.restaurant_name, active_theme |-> o.active_theme,
     active_overlay |-> o.active_overlay]

SettingsObjOf(table, pk) ==
    [pk |-> pk, restaurant_name |-> table[pk].restaurant_name,
     active_theme |-> table[pk].active_theme,
     active_overlay |-> table[pk].active_overlay]

\* SiteSettings.save, line 476: self.pk = 1
SettingsKeepPk(o) == o
SettingsPinPk(o) == [o EXCEPT !.pk = 1]

\* the pk the row is written under (AutoField when the instance has none)
SettingsPkOnSave(table, o) ==
    IF o.pk = 0 THEN NextPk(table) ELSE o.pk

\* models.Model.save, the UPDATE: TRUE when a row was matched
SettingsUpdateHits(table, o) == o.pk # 0 /\ o.pk \in DOMAIN table

SettingsWrite(table, o) ==
    LET pk == SettingsPkOnSave(table, o) IN
    [k \in DOMAIN table \cup {pk} |-> IF k = pk THEN SettingsRowOf(o) ELSE table[k]]

\* SiteSettings.save (lines 475-477) run to its end: [table, obj]
SettingsSave(table, o) ==
    LET pinned == SettingsPinPk(o) IN
    [table |-> SettingsWrite(table, pinned),
     obj |-> [pinned EXCEPT !.pk = SettingsPkOnSave(table, pinned)]]

\* objects.get_or_create(pk=1), line 482: what follows a create() whose INSERT
\* hit the primary key of an existing row (IntegrityError): Django catches it
\* and runs the get() again
RaiseIntegrityError == "load_error"
AfterIntegrityError == "conflict"

\* SiteSettings.load (lines 480-483) run to its end: [table, obj, created]
SettingsLoad(table) ==
    IF 1 \in DOMAIN table
    THEN [table |-> table, obj |-> SettingsObjOf(table, 1), created |-> FALSE]
    ELSE LET r == SettingsSave(table, [DefaultSettings EXCEPT !.pk = 1]) IN
         [table |-> r.table, obj |-> r.obj, created |-> TRUE]

SSIdle(p) == ssPc[p] \in {"idle", "got", "created", "regot", "saved"}
SSLoaded(p) == ssPc[p] \in {"got", "created", "regot"}

\* SiteSettings(restaurant_name=nm), not saved
SSNew(p, nm) ==
    /\ SSIdle(p)
    /\ ssObj' = [ssObj EXCEPT ![p] = [DefaultSettings EXCEPT !.restaurant_name = nm]]
    /\ ssPc' = [ssPc EXCEPT ![p] = "idle"]
    /\ UNCHANGED settingsTable

\* settings.restaurant_name = nm (in memory only)
SSEdit(p, nm) ==
    /\ SSIdle(p)
    /\ ssObj[p] # NoObj
    /\ ssObj[p].restaurant_name # nm
    /\ ssObj' = [ssObj EXCEPT ![p].restaurant_name = nm]
    /\ ssPc' = [ssPc EXCEPT ![p] = "idle"]
    /\ UNCHANGED settingsTable

\* SiteSettings.save(), whole
SSSave(p) ==
    /\ SSIdle(p)
    /\ ssObj[p] # NoObj
    /\ LET r == SettingsSave(settingsTable, ssObj[p]) IN
        /\ settingsTable' = r.table
        /\ ssObj' = [ssObj EXCEPT ![p] = r.obj]
    /\ ssPc' = [ssPc EXCEPT ![p] = "saved"]

\* SiteSettings.load(), whole
SSLoad(p) ==
    /\ SSIdle(p)
    /\ LET r == SettingsLoad(settingsTable) IN
        /\ settingsTable' = r.table
        /\ ssObj' = [ssObj EXCEPT ![p] = r.obj]
        /\ ssPc' = [ssPc EXCEPT ![p] = IF r.created THEN "created" ELSE "got"]

\* save(), line 476 and the UPDATE of super().save()
SSSaveUpdate(p) ==
    /\ SSIdle(p)
    /\ ssObj[p] # NoObj
    /\ LET o == SettingsPinPk(ssObj[p]) IN
       IF SettingsUpdateHits(settingsTable, o)
       THEN /\ settingsTable' = SettingsWrite(settingsTable, o)
            /\ ssObj' = [ssObj EXCEPT ![p] = o]
            /\ ssPc' = [ssPc EXCEPT ![p] = "saved"]
       ELSE /\ ssObj' = [ssObj EXCEPT ![p] = o]
            /\ ssPc' = [ssPc EXCEPT ![p] = "inserting"]
            /\ UNCHANGED settingsTable

\* save(), the INSERT of super().save() after an UPDATE that matched no row
SSSaveInsert(p) ==
    /\ ssPc[p] = "inserting"
    /\ LET pk == SettingsPkOnSave(settingsTable, ssObj[p]) IN
       IF pk \in DOMAIN settingsTable
       THEN /\ ssPc' = [ssPc EXCEPT ![p] = "save_error"]
            /\ UNCHANGED <<settingsTable, ssObj>>
       ELSE /\ settingsTable' = SettingsWrite(settingsTable, ssObj[p])
            /\ ssObj' = [ssObj EXCEPT ![p].pk = pk]
            /\ ssPc' = [ssPc EXCEPT ![p] = "saved"]

\* load(): get_or_create's first get(pk=1)
SSLoadGet(p) ==
    /\ SSIdle(p)
    /\ IF 1 \in DOMAIN settingsTable
       THEN /\ ssObj' = [ssObj EXCEPT ![p] = SettingsObjOf(settingsTable, 1)]
            /\ ssPc' = [ssPc EXCEPT ![p] = "got"]
       ELSE /\ ssObj' = [ssObj EXCEPT ![p] = NoObj]
            /\ ssPc' = [ssPc EXCEPT ![p] = "missed"]
    /\ UNCHANGED settingsTable

\* load(): get_or_create's create(pk=1), i.e. save(force_insert=True)
SSLoadCreate(p) ==
    /\ ssPc[p] = "missed"
    /\ LET o == SettingsPinPk([DefaultSettings EXCEPT !.pk = 1]) IN
       IF SettingsPkOnSave(settingsTable, o) \in DOMAIN settingsTable
       THEN /\ ssPc' = [ssPc EXCEPT ![p] = AfterIntegrityError]
            /\ UNCHANGED <<settingsTable, ssObj>>
       ELSE /\ settingsTable' = SettingsWrite(settingsTable, o)
            /\ ssObj' = [ssObj EXCEPT ![p] = o]
            /\ ssPc' = [ssPc EXCEPT ![p] = "created"]

\* load(): get_or_create's second get(pk=1), after the IntegrityError
SSLoadReget(p) ==
    /\ ssPc[p] = "conflict"
    /\ IF 1 \in DOMAIN settingsTable
       THEN /\ ssObj' = [ssObj EXCEPT ![p] = SettingsObjOf(settingsTable, 1)]
            /\ ssPc' = [ssPc EXCEPT ![p] = "regot"]
       ELSE /\ ssPc' = [ssPc EXCEPT ![p] = "load_error"]
            /\ UNCHANGED ssObj
    /\ UNCHANGED settingsTable

SettingsInit ==
    /\ settingsTable = EmptyTable
    /\ ssObj = [p \in Procs |-> NoObj]
    /\ ssPc = [p \in Procs |-> "idle"]

----------------------------------------------------------------------------
(* ThemeStyle *)

\* some of FONT_CHOICES (lines 31-48) and blank; Georgia is a system font
FontSample == {"", "Georgia, serif", "\"Lato\", sans-serif"}
ColorSample == {"", "#0a0a0a", "#c9972a"}

BlankStyle ==
    [primary_font |-> "", secondary_font |-> "", accent_font |-> "",
     primary_text_color |-> "", secondary_text_color |-> "",
     accent_text_color |-> "", heading_text_color |-> "",
     primary_bg_color |-> "", secondary_bg_color |-> "",
     accent_bg_color |-> "", nav_bg_color |-> ""]

\* Python truthiness of a str: the blank CharField "" is falsy
Truthy(v) == v # ""

\* to_css_vars, lines 140-155: the dict literal
CssMapping(s) ==
    ("font-primary" :> s.primary_font)
    @@ ("font-secondary" :> s.secondary_font)
    @@ ("font-accent" :> s.accent_font)
    @@ ("color-text-primary" :> s.primary_text_color)
    @@ ("color-text-secondary" :> s.secondary_text_color)
    @@ ("color-text-accent" :> s.accent_text_color)
    @@ ("color-text-heading" :> s.heading_text_color)
    @@ ("color-bg-primary" :> s.primary_bg_color)
    @@ ("color-bg-secondary" :> s.secondary_bg_color)
    @@ ("color-bg-accent" :> s.accent_bg_color)
    @@ ("color-nav-bg" :> s.nav_bg_color)

\* ThemeStyle.to_css_vars: {k: v for k, v in mapping.items() if v}
to_css_vars_unfiltered(s) == CssMapping(s)
to_css_vars(s) ==
    LET mapping == CssMapping(s) IN
    [k \in {k \in DOMAIN mapping : Truthy(mapping[k])} |-> mapping[k]]

EmptyDict == [k \in {} |-> ""]

\* dict.update: the argument's items replace the receiver's
DictUpdate(d, u) == u @@ d

----------------------------------------------------------------------------
(* ThemeOverlay *)

Days == 0..MaxDay
NullDate == <<>>
OptDays == {NullDate} \cup {<<d>> : d \in Days}

\* Python truthiness of a nullable DateField: None is falsy, every date is truthy
DateSet(d) == d # NullDate

\* line 216: today = timezone.now().date()
first_evaluation_date == Min(Days)
timezone_now_date == today

\* ThemeOverlay.is_currently_active (lines 213-219)
is_currently_active_and_flag(o) ==
    IF DateSet(o.valid_from) /\ DateSet(o.valid_to)
    THEN o.valid_from[1] <= timezone_now_date /\ timezone_now_date <= o.valid_to[1]
         /\ o.is_active
    ELSE o.is_active
\* an inverted window treated as no window: the flag decides
is_currently_active_well_formed(o) ==
    IF DateSet(o.valid_from) /\ DateSet(o.valid_to)
       /\ o.valid_from[1] <= o.valid_to[1]
    THEN o.valid_from[1] <= timezone_now_date
         /\ timezone_now_date <= o.valid_to[1]
    ELSE o.is_active
is_currently_active_open_ended(o) ==
    /\ DateSet(o.valid_from) => o.valid_from[1] <= timezone_now_date
    /\ DateSet(o.valid_to) => timezone_now_date <= o.valid_to[1]
    /\ (DateSet(o.valid_from) /\ DateSet(o.valid_to)) \/ o.is_active
is_currently_active(o) ==
    IF DateSet(o.valid_from) /\ DateSet(o.valid_to)
    THEN o.valid_from[1] <= timezone_now_date /\ timezone_now_date <= o.valid_to[1]
    ELSE o.is_active

----------------------------------------------------------------------------
(* Theme.resolve_style_vars *)

\* lines 282-291: base layer first, then the overlay's layer over it
\* the overlay's map taken alone whenever it has a key
MergeOverlayReplaces(base, overlay) ==
    IF overlay # EmptyDict THEN overlay ELSE base
MergeBaseWins(base, overlay) == DictUpdate(DictUpdate(EmptyDict, overlay), base)
MergeLayers(base, overlay) == DictUpdate(DictUpdate(EmptyDict, base), overlay)

\* lines 285-286: the base layer of a Theme row
BaseLayer(theme) ==
    IF theme.base_style # 0 THEN to_css_vars(styleTable[theme.base_style])
    ELSE EmptyDict

\* the overlay layer taken from whichever overlay is currently active
OverlayLayerAnyActive(settings) ==
    LET act == {o \in DOMAIN overlayTable :
                    is_currently_active(overlayTable[o])} IN
    IF act = {} THEN EmptyDict
    ELSE to_css_vars(styleTable[overlayTable[Max(act)].style])

\* the overlay layer without the test of is_currently_active
OverlayLayerUnchecked(settings) ==
    IF settings.active_overlay # 0
    THEN to_css_vars(styleTable[overlayTable[settings.active_overlay].style])
    ELSE EmptyDict

\* lines 290-291: the overlay layer, given the loaded SiteSettings
OverlayLayer(settings) ==
    IF settings.active_overlay # 0
       /\ is_currently_active(overlayTable[settings.active_overlay])
    THEN to_css_vars(styleTable[overlayTable[settings.active_overlay].style])
    ELSE EmptyDict

\* Theme.resolve_style_vars (lines 275-293), after settings = SiteSettings.load()
resolve_style_vars(theme, settings) ==
    MergeLayers(BaseLayer(theme), OverlayLayer(settings))

\* a related row that a foreign key names is missing: ObjectDoesNotExist
resolve_style_vars_raises(theme, settings) ==
    \/ theme.base_style # 0 /\ theme.base_style \notin DOMAIN styleTable
    \/ /\ settings.active_overlay # 0
       /\ \/ settings.active_overlay \notin DOMAIN overlayTable
          \/ /\ is_currently_active(overlayTable[settings.active_overlay])
             /\ overlayTable[settings.active_overlay].style
                    \notin DOMAIN styleTable

NoOut == [op |-> "none"]

\* style.to_css_vars()
StyleToCss(pk) ==
    /\ pk \in DOMAIN styleTable
    /\ out = NoOut
    /\ out' = [op |-> "to_css_vars", style |-> pk,
               vars |-> to_css_vars(styleTable[pk])]
    /\ UNCHANGED <<styleTable, overlayTable, today>>

\* overlay.is_currently_active
OverlayCheck(pk) ==
    /\ pk \in DOMAIN overlayTable
    /\ out' = [op |-> "is_currently_active", overlay |-> pk, day |-> today,
               val |-> is_currently_active(overlayTable[pk])]
    /\ UNCHANGED <<styleTable, overlayTable, today>>

\* midnight passes
Tick ==
    /\ today < MaxDay
    /\ today' = today + 1
    /\ UNCHANGED <<styleTable, overlayTable, out>>

\* theme.resolve_style_vars(), with the SiteSettings.load() it runs
Resolve(t) ==
    /\ t \in DOMAIN themeTable
    /\ LET r == SettingsLoad(settingsTable) IN
        /\ settingsTable' = r.table
        /\ out' =
            IF resolve_style_vars_raises(themeTable[t], r.obj)
            THEN [op |-> "resolve_style_vars", theme |-> t, day |-> today,
                  raised |-> TRUE]
            ELSE [op |-> "resolve_style_vars", theme |-> t, day |-> today,
                  raised |-> FALSE,
                  vars |-> resolve_style_vars(themeTable[t], r.obj)]
    /\ UNCHANGED <<styleTable, overlayTable, today>>

\* ---------------------------------------------------------------------
\* Google Fonts: GOOGLE_FONTS_MAP, ThemeStyle.get_google_fonts and
\* Theme.get_google_fonts_url.  A URL is the sequence of the pieces the
\* f-string and the join put side by side; None is the empty sequence.

\* the value None of the two system fonts
PyNone == "None"

\* lines 9-23
GOOGLE_FONTS_MAP ==
    ("\"Playfair Display\", serif" :>
        "Playfair+Display:ital,wght@0,400;0,600;0,700;0,900;1,400") @@
    ("\"Cormorant Garamond\", serif" :>
        "Cormorant+Garamond:ital,wght@0,300;0,400;0,600;1,300;1,400") @@
    ("\"Libre Baskerville\", serif" :>
        "Libre+Baskerville:ital,wght@0,400;0,700;1,400") @@
    ("\"Inter\", sans-serif" :>
        "Inter:wght@300;400;500;600;700") @@
    ("\"Lato\", sans-serif" :>
        "Lato:ital,wght@0,300;0,400;0,700;1,300;1,400") @@
    ("\"Montserrat\", sans-serif" :>
        "Montserrat:wght@300;400;500;600;700") @@
    ("\"Open Sans\", sans-serif" :>
        "Open+Sans:ital,wght@0,300;0,400;0,600;1,400") @@
    ("\"Cinzel\", serif" :>
        "Cinzel:wght@400;600;700") @@
    ("\"Oswald\", sans-serif" :>
        "Oswald:wght@300;400;500;600") @@
    ("\"Raleway\", sans-serif" :>
        "Raleway:wght@300;400;500;600;700") @@
    ("Georgia, serif" :>
        PyNone) @@
    ("\"Courier New\", monospace" :>
        PyNone)

\* the code points of the family parameters, which str comparison reads
CodePoints ==
    ("Playfair+Display:ital,wght@0,400;0,600;0,700;0,900;1,400" :>
      <<80, 108, 97, 121, 102, 97, 105, 114, 43, 68, 105, 115, 112, 108, 97,
        121, 58, 105, 116, 97, 108, 44, 119, 103, 104, 116, 64, 48, 44, 52,
        48, 48, 59, 48, 44, 54, 48, 48, 59, 48, 44, 55, 48, 48, 59, 48, 44,
        57, 48, 48, 59, 49, 44, 52, 48, 48>>) @@
    ("Cormorant+Garamond:ital,wght@0,300;0,400;0,600;1,300;1,400" :>
      <<67, 111, 114, 109, 111, 114, 97, 110, 116, 43, 71, 97, 114, 97, 109,
        111, 110, 100, 58, 105, 116, 97, 108, 44, 119, 103, 104, 116, 64,
        48, 44, 51, 48, 48, 59, 48, 44, 52, 48, 48, 59, 48, 44, 54, 48, 48,
        59, 49, 44, 51, 48, 48, 59, 49, 44, 52, 48, 48>>) @@
    ("Libre+Baskerville:ital,wght@0,400;0,700;1,400" :>
      <<76, 105, 98, 114, 101, 43, 66, 97, 115, 107, 101, 114, 118, 105,
        108, 108, 101, 58, 105, 116, 97, 108, 44, 119, 103, 104, 116, 64,
        48, 44, 52, 48, 48, 59, 48, 44, 55, 48, 48, 59, 49, 44, 52, 48, 48>>) @@
    ("Inter:wght@300;400;500;600;700" :>
      <<73, 110, 116, 101, 114, 58, 119, 103, 104, 116, 64, 51, 48, 48, 59,
        52, 48, 48, 59, 53, 48, 48, 59, 54, 48, 48, 59, 55, 48, 48>>) @@
    ("Lato:ital,wght@0,300;0,400;0,700;1,300;1,400" :>
      <<76, 97, 116, 111, 58, 105, 116, 97, 108, 44, 119, 103, 104, 116, 64,
        48, 44, 51, 48, 48, 59, 48, 44, 52, 48, 48, 59, 48, 44, 55, 48, 48,
        59, 49, 44, 51, 48, 48, 59, 49, 44, 52, 48, 48>>) @@
    ("Montserrat:wght@300;400;500;600;700" :>
      <<77, 111, 110, 116, 115, 101, 114, 114, 97, 116, 58, 119, 103, 104,
        116, 64, 51, 48, 48, 59, 52, 48, 48, 59, 53, 48, 48, 59, 54, 48, 48,
        59, 55, 48, 48>>) @@
    ("Open+Sans:ital,wght@0,300;0,400;0,600;1,400" :>
      <<79, 112, 101, 110, 43, 83, 97, 110, 115, 58, 105, 116, 97, 108, 44,
        119, 103, 104, 116, 64, 48, 44, 51, 48, 48, 59, 48, 44, 52, 48, 48,
        59, 48, 44, 54, 48, 48, 59, 49, 44, 52, 48, 48>>) @@
    ("Cinzel:wght@400;600;700" :>
      <<67, 105, 110, 122, 101, 108, 58, 119, 103, 104, 116, 64, 52, 48, 48,
        59, 54, 48, 48, 59, 55, 48, 48>>) @@
    ("Oswald:wght@300;400;500;600" :>
      <<79, 115, 119, 97, 108, 100, 58, 119, 103, 104, 116, 64, 51, 48, 48,
        59, 52, 48, 48, 59, 53, 48, 48, 59, 54, 48, 48>>) @@
    ("Raleway:wght@300;400;500;600;700" :>
      <<82, 97, 108, 101, 119, 97, 121, 58, 119, 103, 104, 116, 64, 51, 48,
        48, 59, 52, 48, 48, 59, 53, 48, 48, 59, 54, 48, 48, 59, 55, 48, 48>>)

\* str.__lt__: code point by code point, a proper prefix being smaller
StrLess(x, y) ==
    LET a == CodePoints[x]
        b == CodePoints[y]
    IN \E i \in 1..(Len(a) + 1) :
        /\ \A j \in 1..(i - 1) : j <= Len(b) /\ a[j] = b[j]
        /\ \/ i <= Len(a) /\ i <= Len(b) /\ a[i] < b[i]
           \/ i = Len(a) + 1 /\ i <= Len(b)

\* the families in descending order
RECURSIVE sorted_reverse(_)
sorted_reverse(S) ==
    IF S = {} THEN <<>>
    ELSE LET m == CHOOSE x \in S : \A y \in S \ {x} : StrLess(y, x)
         IN <<m>> \o sorted_reverse(S \ {m})

\* sorted(font_families), line 317
RECURSIVE sorted(_)
sorted(S) ==
    IF S = {} THEN <<>>
    ELSE LET m == CHOOSE x \in S : \A y \in S \ {x} : StrLess(x, y)
         IN <<m>> \o sorted(S \ {m})

\* sep.join(seq), line 317
RECURSIVE Join(_, _)
Join(seq, sep) ==
    IF Len(seq) = 0 THEN <<>>
    ELSE IF Len(seq) = 1 THEN <<seq[1]>>
    ELSE <<seq[1], sep>> \o Join(Tail(seq), sep)

\* the three font fields that get_google_fonts reads, line 165
FontFields(s) == {s.primary_font, s.secondary_font, s.accent_font}

\* a field is looked up whenever it is not blank
FontLookedUpUnguarded(field) == Truthy(field)

\* line 166: the map is indexed only after `field and field in
\* GOOGLE_FONTS_MAP`
FontLookedUp(field) == Truthy(field) /\ field \in DOMAIN GOOGLE_FONTS_MAP

\* GOOGLE_FONTS_MAP[field] raises KeyError
get_google_fonts_raises(s) ==
    \E field \in FontFields(s) :
        FontLookedUp(field) /\ field \notin DOMAIN GOOGLE_FONTS_MAP

\* ThemeStyle.get_google_fonts (lines 159-169): the set behind the list
get_google_fonts(s) ==
    {GOOGLE_FONTS_MAP[field] :
        field \in {f \in FontFields(s) :
                    FontLookedUp(f) /\ GOOGLE_FONTS_MAP[f] # PyNone
                    /\ Truthy(GOOGLE_FONTS_MAP[f])}}

\* lines 307-308
BaseFonts(theme) ==
    IF theme.base_style # 0 THEN get_google_fonts(styleTable[theme.base_style])
    ELSE {}

\* lines 311-312
OverlayFonts(settings) ==
    IF settings.active_overlay # 0
       /\ is_currently_active(overlayTable[settings.active_overlay])
    THEN get_google_fonts(
            styleTable[overlayTable[settings.active_overlay].style])
    ELSE {}

\* the overlay's families taken alone whenever it has any
font_families_overlay_first(theme, settings) ==
    IF OverlayFonts(settings) # {} THEN OverlayFonts(settings)
    ELSE BaseFonts(theme)

\* font_families after the two updates, lines 305-312
font_families(theme, settings) == BaseFonts(theme) \cup OverlayFonts(settings)

\* each layer's list put in the parameter one after the other
families_param_per_layer(theme, settings) ==
    Join(sorted(BaseFonts(theme)) \o sorted(OverlayFonts(settings)),
         "&family=")

\* line 317
families_param(theme, settings) ==
    Join(sorted(font_families(theme, settings)), "&family=")

NoUrl == <<>>
UrlHead == "https://fonts.googleapis.com/css2?family="
UrlTail == "&display=swap"

\* the URL built without the test of line 314
get_google_fonts_url_unchecked(theme, settings) ==
    <<UrlHead>> \o families_param(theme, settings) \o <<UrlTail>>

\* Theme.get_google_fonts_url (lines 295-318), after SiteSettings.load()
get_google_fonts_url(theme, settings) ==
    IF font_families(theme, settings) = {} THEN NoUrl
    ELSE <<UrlHead>> \o families_param(theme, settings) \o <<UrlTail>>

\* get_google_fonts_url follows the same references and indexes the map
get_google_fonts_url_raises(theme, settings) ==
    \/ resolve_style_vars_raises(theme, settings)
    \/ theme.base_style # 0
       /\ get_google_fonts_raises(styleTable[theme.base_style])
    \/ /\ settings.active_overlay # 0
       /\ is_currently_active(overlayTable[settings.active_overlay])
       /\ get_google_fonts_raises(
            styleTable[overlayTable[settings.active_overlay].style])

\* theme.get_google_fonts_url(), with the SiteSettings.load() it runs
FontsUrl(t) ==
    /\ t \in DOMAIN themeTable
    /\ LET r == SettingsLoad(settingsTable) IN
        /\ settingsTable' = r.table
        /\ out' =
            IF get_google_fonts_url_raises(themeTable[t], r.obj)
            THEN [op |-> "get_google_fonts_url", theme |-> t, day |-> today,
                  raised |-> TRUE]
            ELSE [op |-> "get_google_fonts_url", theme |-> t, day |-> today,
                  raised |-> FALSE,
                  url |-> get_google_fonts_url(themeTable[t], r.obj)]
    /\ UNCHANGED <<styleTable, overlayTable, today>>

\* ---------------------------------------------------------------------
\* context_processors.active_theme (lines 30-73).  None is pk 0.

\* the overlay's variables handed out although no theme is active
ContextWithoutThemeOverlaid ==
    [active_theme |-> 0, theme_directory |-> "default",
     theme_style_vars |->
        IF 1 \in DOMAIN settingsTable
        THEN OverlayLayer(SettingsObjOf(settingsTable, 1)) ELSE EmptyDict,
     google_fonts_url |-> NoUrl]

\* lines 63-66 and 68-73: the context without an active theme
ContextWithoutTheme ==
    [active_theme |-> 0, theme_directory |-> "default",
     theme_style_vars |-> EmptyDict, google_fonts_url |-> NoUrl]

\* lines 59-62 and 68-73: the context of theme th, settings being the
\* object that SiteSettings.load() returns to both calls
ContextOfTheme(th, settings) ==
    [active_theme |-> th,
     theme_directory |-> themeTable[th].theme_directory,
     theme_style_vars |-> resolve_style_vars(themeTable[th], settings),
     google_fonts_url |-> get_google_fonts_url(themeTable[th], settings)]

\* one run of the context processor
Render ==
    LET th == get_active_theme(themeTable) IN
    /\ IF th = 0
       THEN /\ out' = [op |-> "active_theme", day |-> today,
                       raised |-> FALSE, context |-> ContextWithoutTheme]
            /\ UNCHANGED settingsTable
       ELSE LET r == SettingsLoad(settingsTable) IN
            /\ settingsTable' = r.table
            /\ out' =
                IF get_google_fonts_url_raises(themeTable[th], r.obj)
                THEN [op |-> "active_theme", day |-> today, raised |-> TRUE]
                ELSE [op |-> "active_theme", day |-> today, raised |-> FALSE,
                      context |-> ContextOfTheme(th, r.obj)]
    /\ UNCHANGED <<styleTable, overlayTable, today>>

\* an administrator points SiteSettings.active_theme at theme v, or at none
SetActiveTheme(v) ==
    /\ v \in DOMAIN themeTable \cup {0}
    /\ LET r == SettingsLoad(settingsTable) IN
        /\ r.obj.active_theme # v
        /\ settingsTable' =
                SettingsSave(r.table, [r.obj EXCEPT !.active_theme = v]).table
    /\ UNCHANGED <<styleTable, overlayTable, today, out>>

\* ---------------------------------------------------------------------
\* Deleting rows: Model.delete() collects the rows that refer to the one
\* deleted and applies each foreign key's on_delete before it deletes.

\* the overlays whose style is ThemeStyle pk
OverlaysOfStyle(pk) ==
    {o \in DOMAIN overlayTable : overlayTable[o].style = pk}

\* a style that no foreign key protects
StyleUnprotected(pk) == FALSE

\* ThemeOverlay.style, on_delete=PROTECT (lines 180-184): the collector
\* raises ProtectedError before any row is written
StyleProtected(pk) == OverlaysOfStyle(pk) # {}

\* a table without row pk
WithoutRow(table, pk) == [k \in DOMAIN table \ {pk} |-> table[k]]

\* Theme.base_style, on_delete=SET_NULL (lines 243-250)
ThemesAfterStyleDelete(pk) ==
    [t \in DOMAIN themeTable |->
        IF themeTable[t].base_style = pk
        THEN [themeTable[t] EXCEPT !.base_style = 0] ELSE themeTable[t]]

\* the rows that refer to the overlay deleted with it
SettingsAfterOverlayDeleteCascade(pk) ==
    [k \in {j \in DOMAIN settingsTable :
                settingsTable[j].active_overlay # pk} |-> settingsTable[k]]

\* SiteSettings.active_overlay, on_delete=SET_NULL (lines 407-414)
SettingsAfterOverlayDelete(pk) ==
    [k \in DOMAIN settingsTable |->
        IF settingsTable[k].active_overlay = pk
        THEN [settingsTable[k] EXCEPT !.active_overlay = 0]
        ELSE settingsTable[k]]

\* SiteSettings.active_theme, on_delete=SET_NULL (lines 400-406)
SettingsAfterThemeDelete(pk) ==
    [k \in DOMAIN settingsTable |->
        IF settingsTable[k].active_theme = pk
        THEN [settingsTable[k] EXCEPT !.active_theme = 0]
        ELSE settingsTable[k]]

\* ThemeStyle.objects.get(pk=pk).delete()
DeleteStyle(pk) ==
    /\ pk \in DOMAIN styleTable
    /\ IF StyleProtected(pk)
       THEN /\ out' = [op |-> "delete_style", pk |-> pk, raised |-> TRUE]
            /\ UNCHANGED <<styleTable, themeTable>>
       ELSE /\ out' = [op |-> "delete_style", pk |-> pk, raised |-> FALSE]
            /\ styleTable' = WithoutRow(styleTable, pk)
            /\ themeTable' = ThemesAfterStyleDelete(pk)
    /\ UNCHANGED <<overlayTable, settingsTable, today>>

\* ThemeOverlay.objects.get(pk=pk).delete()
DeleteOverlay(pk) ==
    /\ pk \in DOMAIN overlayTable
    /\ out' = [op |-> "delete_overlay", pk |-> pk, raised |-> FALSE,
               referenced |-> \E k \in DOMAIN settingsTable :
                                settingsTable[k].active_overlay = pk]
    /\ overlayTable' = WithoutRow(overlayTable, pk)
    /\ settingsTable' = SettingsAfterOverlayDelete(pk)
    /\ UNCHANGED <<styleTable, themeTable, today>>

\* Theme.objects.get(pk=pk).delete()
DeleteTheme(pk) ==
    /\ pk \in DOMAIN themeTable
    /\ out' = [op |-> "delete_theme", pk |-> pk, raised |-> FALSE]
    /\ themeTable' = WithoutRow(themeTable, pk)
    /\ settingsTable' = SettingsAfterThemeDelete(pk)
    /\ UNCHANGED <<styleTable, overlayTable, today>>

\* ---------------------------------------------------------------------
\* SiteSettingsAdmin (admin.py lines 47-57): the add and delete views ask
\* the permission first and answer 403 when it is refused.

\* lines 49-51
has_add_permission == DOMAIN settingsTable = {}

\* a delete permission that is granted
has_delete_permission_granted == TRUE

\* lines 53-55: for every request and object
has_delete_permission == FALSE

\* the add view: a new SiteSettings saved from the form
AdminAddSettings(nm) ==
    /\ IF has_add_permission
       THEN /\ settingsTable' =
                SettingsSave(settingsTable,
                    [DefaultSettings EXCEPT !.restaurant_name = nm]).table
            /\ out' = [op |-> "admin_add", denied |-> FALSE]
       ELSE /\ out' = [op |-> "admin_add", denied |-> TRUE]
            /\ UNCHANGED settingsTable
    /\ UNCHANGED <<styleTable, overlayTable, today>>

\* the delete view and the delete_selected action on row pk
AdminDeleteSettings(pk) ==
    /\ pk \in DOMAIN settingsTable
    /\ IF has_delete_permission
       THEN /\ settingsTable' = WithoutRow(settingsTable, pk)
            /\ out' = [op |-> "admin_delete", denied |-> FALSE]
       ELSE /\ out' = [op |-> "admin_delete", denied |-> TRUE]
            /\ UNCHANGED settingsTable
    /\ UNCHANGED <<styleTable, overlayTable, today>>

----------------------------------------------------------------------------
(* Event and Promotion (apps/events/models.py, apps/events/admin.py;
   apps/promotions/models.py and admin.py are the same code line for line).
   timezone.now() is the clock `today`; a blank PositiveIntegerField or
   DecimalField is <<>> and a set one is <<n>>. *)

EVENT_STATUS == {"draft", "published", "cancelled", "completed"}

\* A new instance with the field defaults (start_date is required)
BlankEvent ==
    [status |-> "draft", published_date |-> NullDate,
     start_date |-> 0, end_date |-> NullDate,
     has_registration |-> FALSE, max_capacity |-> <<>>,
     current_registrations |-> 0, registration_deadline |-> NullDate]

\* The change form: the instance with primary key pk (a new instance when the
\* row does not exist yet) gets status st and is saved.  save() stamps
\* published_date when the status is 'published' and no date is set.
EventSave(m, pk, st) ==
    LET table == catalog[m]
        e == IF pk \in DOMAIN table THEN table[pk] ELSE BlankEvent
        changed == [e EXCEPT !.status = st]
        saved == IF changed.status = "published" /\ ~DateSet(changed.published_date)
                 THEN [changed EXCEPT !.published_date = <<today>>]
                 ELSE changed
    IN  /\ pk \in DOMAIN table \/ pk = NextPk(table)
        /\ catalog' = [catalog EXCEPT ![m] = (pk :> saved) @@ table]
        /\ out' = [op |-> "save", model |-> m, pk |-> pk]
        /\ UNCHANGED <<styleTable, overlayTable, today>>

\* Admin action: queryset.filter(status='draft').update(status='published')
publish_events_status_only(m, sel) ==
    LET table == catalog[m]
        hit == {pk \in sel : table[pk].status = "draft"}
    IN  /\ sel # {} /\ sel \subseteq DOMAIN table
        /\ catalog' = [catalog EXCEPT ![m] =
                [pk \in DOMAIN table |->
                    IF pk \in hit
                    THEN [table[pk] EXCEPT !.status = "published"]
                    ELSE table[pk]]]
        /\ out' = [op |-> "publish", model |-> m, updated |-> hit]
        /\ UNCHANGED <<styleTable, overlayTable, today>>

\* Admin action: queryset.filter(status='draft').update(status='published',
\* published_date=timezone.now())
publish_events(m, sel) ==
    LET table == catalog[m]
        hit == {pk \in sel : table[pk].status = "draft"}
    IN  /\ sel # {} /\ sel \subseteq DOMAIN table
        /\ catalog' = [catalog EXCEPT ![m] =
                [pk \in DOMAIN table |->
                    IF pk \in hit
                    THEN [table[pk] EXCEPT !.status = "published",
                                           !.published_date = <<today>>]
                    ELSE table[pk]]]
        /\ out' = [op |-> "publish", model |-> m, updated |-> hit]
        /\ UNCHANGED <<styleTable, overlayTable, today>>

\* Admin action: queryset.filter(status='published').update(status='draft')
unpublish_events(m, sel) ==
    LET table == catalog[m]
        hit == {pk \in sel : table[pk].status = "published"}
    IN  /\ sel # {} /\ sel \subseteq DOMAIN table
        /\ catalog' = [catalog EXCEPT ![m] =
                [pk \in DOMAIN table |->
                    IF pk \in hit
                    THEN [table[pk] EXCEPT !.status = "draft"]
                    ELSE table[pk]]]
        /\ out' = [op |-> "unpublish", model |-> m, updated |-> hit]
        /\ UNCHANGED <<styleTable, overlayTable, today>>

\* Admin action: queryset.update(status='completed')
mark_as_completed(m, sel) ==
    /\ sel # {} /\ sel \subseteq DOMAIN catalog[m]
    /\ catalog' = [catalog EXCEPT ![m] =
            [pk \in DOMAIN catalog[m] |->
                IF pk \in sel
                THEN [catalog[m][pk] EXCEPT !.status = "completed"]
                ELSE catalog[m][pk]]]
    /\ out' = [op |-> "completed", model |-> m, updated |-> sel]
    /\ UNCHANGED <<styleTable, overlayTable, today>>

\* The date properties; now is timezone.now().date()
is_upcoming(e, now) == e.start_date >= now

is_past_without_fallback(e, now) ==
    DateSet(e.end_date) /\ e.end_date[1] < now

is_past(e, now) ==
    LET end_date == IF DateSet(e.end_date) THEN e.end_date[1] ELSE e.start_date
    IN  end_date < now

is_ongoing(e, now) ==
    LET end_date == IF DateSet(e.end_date) THEN e.end_date[1] ELSE e.start_date
    IN  e.start_date <= now /\ now <= end_date

\* EventAdmin.event_status_indicator
event_status_indicator(e, now) ==
    IF is_past(e, now) THEN "Past"
    ELSE IF is_ongoing(e, now) THEN "Ongoing"
    ELSE IF is_upcoming(e, now) THEN "Upcoming"
    ELSE "Unknown"

\* The registration properties.  `not self.max_capacity` holds for None and for 0.
is_full(e) ==
    IF ~e.has_registration \/ e.max_capacity \in {<<>>, <<0>>}
    THEN FALSE
    ELSE e.current_registrations >= e.max_capacity[1]

\* None is <<>>
spots_remaining(e) ==
    IF ~e.has_registration \/ e.max_capacity \in {<<>>, <<0>>}
    THEN <<>>
    ELSE <<Max({0, e.max_capacity[1] - e.current_registrations})>>

can_register(e, now) ==
    IF ~e.has_registration THEN FALSE
    ELSE IF is_full(e) THEN FALSE
    ELSE IF DateSet(e.registration_deadline) /\ now > e.registration_deadline[1]
         THEN FALSE
    ELSE TRUE

\* The changelist row or a template reads the properties of row pk
EventDisplay(m, pk) ==
    /\ pk \in DOMAIN catalog[m]
    /\ LET e == catalog[m][pk]
       IN  out' = [op |-> "event_display", model |-> m, pk |-> pk, row |-> e,
                   now |-> today,
                   indicator |-> event_status_indicator(e, today),
                   is_full |-> is_full(e),
                   spots_remaining |-> spots_remaining(e),
                   can_register |-> can_register(e, today)]
    /\ UNCHANGED <<styleTable, overlayTable, today, catalog>>

----------------------------------------------------------------------------
(* MenuItem (apps/menu/models.py); prices are whole amounts *)

\* `if self.sale_price`: None and Decimal 0 are falsy
current_price(i) ==
    IF i.sale_price \notin {<<>>, <<0>>} THEN i.sale_price[1] ELSE i.price

is_on_sale(i) == i.sale_price # <<>> /\ i.sale_price[1] < i.price

MenuItemDisplay(pk) ==
    /\ pk \in DOMAIN catalog["MenuItem"]
    /\ LET i == catalog["MenuItem"][pk]
       IN  out' = [op |-> "menu_display", pk |-> pk, item |-> i,
                   current_price |-> current_price(i),
                   is_on_sale |-> is_on_sale(i)]
    /\ UNCHANGED <<styleTable, overlayTable, today, catalog>>

----------------------------------------------------------------------------

DataInit ==
    /\ styleTable = EmptyTable
    /\ overlayTable = EmptyTable
    /\ today = 0
    /\ out = NoOut
    /\ catalog = EmptyCatalog

----------------------------------------------------------------------------
(* Specifications *)

\* Theme.save() calls one after the other
InitTheme == ThemeInit /\ SettingsInit /\ DataInit

NextTheme ==
    /\ \/ \E p \in Procs, nm \in ThemeNames, flag \in BOOLEAN : ThemeNew(p, nm, flag)
       \/ \E p \in Procs, pk \in ThemePks : ThemeGet(p, pk)
       \/ \E p \in Procs, b \in BOOLEAN : ThemeSetActive(p, b)
       \/ \E p \in Procs : ThemeSave(p)
    /\ UNCHANGED <<settingsVars, dataVars>>
    /\ UNCHANGED catalog

SpecTheme == InitTheme /\ [][NextTheme]_vars

\* Theme.save() calls of several requests, interleaved statement by statement
NextThemeConc ==
    /\ \/ \E p \in Procs, nm \in ThemeNames, flag \in BOOLEAN : ThemeNew(p, nm, flag)
       \/ \E p \in Procs, pk \in ThemePks : ThemeGet(p, pk)
       \/ \E p \in Procs, b \in BOOLEAN : ThemeSetActive(p, b)
       \/ \E p \in Procs : ThemeSaveBegin(p)
       \/ \E p \in Procs : ThemeSaveWrite(p)
    /\ UNCHANGED <<settingsVars, dataVars>>
    /\ UNCHANGED catalog

SpecThemeConc == InitTheme /\ [][NextThemeConc]_vars

\* SiteSettings.load() and save() calls one after the other
InitSettings == ThemeInit /\ SettingsInit /\ DataInit

NextSettings ==
    /\ \/ \E p \in Procs, nm \in RestaurantNames : SSNew(p, nm)
       \/ \E p \in Procs, nm \in RestaurantNames : SSEdit(p, nm)
       \/ \E p \in Procs : SSSave(p)
       \/ \E p \in Procs : SSLoad(p)
    /\ UNCHANGED <<themeVars, dataVars>>
    /\ UNCHANGED catalog

SpecSettings == InitSettings /\ [][NextSettings]_vars

\* load() and save() calls of several requests, interleaved statement by statement
NextSettingsConc ==
    /\ \/ \E p \in Procs, nm \in RestaurantNames : SSNew(p, nm)
       \/ \E p \in Procs, nm \in RestaurantNames : SSEdit(p, nm)
       \/ \E p \in Procs : SSSaveUpdate(p)
       \/ \E p \in Procs : SSSaveInsert(p)
       \/ \E p \in Procs : SSLoadGet(p)
       \/ \E p \in Procs : SSLoadCreate(p)
       \/ \E p \in Procs : SSLoadReget(p)
    /\ UNCHANGED <<themeVars, dataVars>>
    /\ UNCHANGED catalog

SpecSettingsConc == InitSettings /\ [][NextSettingsConc]_vars

\* the admin of SiteSettings: the change view loads, edits and saves, the
\* add and delete views are guarded by the permissions
NextSettingsAdmin ==
    \/ /\ \/ \E p \in Procs, nm \in RestaurantNames : SSEdit(p, nm)
          \/ \E p \in Procs : SSSave(p)
          \/ \E p \in Procs : SSLoad(p)
       /\ UNCHANGED <<themeVars, dataVars, catalog>>
    \/ /\ \/ \E nm \in RestaurantNames : AdminAddSettings(nm)
          \/ \E pk \in {1} : AdminDeleteSettings(pk)
       /\ UNCHANGED <<themeVars, ssObj, ssPc, catalog>>

SpecSettingsAdmin == InitSettings /\ [][NextSettingsAdmin]_vars


\* ThemeStyle.to_css_vars on every style of the sample
AllStyles ==
    [primary_font : FontSample, secondary_font : FontSample,
     accent_font : FontSample,
     primary_text_color : {"", "#f5f0e8"}, secondary_text_color : {"", "#c9972a"},
     accent_text_color : {"", "#c9972a"}, heading_text_color : {"", "#f5f0e8"},
     primary_bg_color : {"", "#0a0a0a"}, secondary_bg_color : {"", "#1a1a1a"},
     accent_bg_color : {"", "#c9972a"}, nav_bg_color : {"", "#0a0a0a"}]

InitStyle ==
    /\ ThemeInit /\ SettingsInit
    /\ \E s \in AllStyles : styleTable = (1 :> s)
    /\ overlayTable = EmptyTable
    /\ today = 0
    /\ out = NoOut
    /\ catalog = EmptyCatalog

NextStyle ==
    /\ \E pk \in {1} : StyleToCss(pk)
    /\ UNCHANGED <<themeVars, settingsVars>>
    /\ UNCHANGED catalog

SpecStyle == InitStyle /\ [][NextStyle]_vars

\* ThemeOverlay.is_currently_active on every overlay, as the days pass
AllOverlays ==
    [style : {1}, valid_from : OptDays, valid_to : OptDays, is_active : BOOLEAN]

InitOverlay ==
    /\ ThemeInit /\ SettingsInit
    /\ styleTable = (1 :> BlankStyle)
    /\ \E o \in AllOverlays : overlayTable = (1 :> o)
    /\ today = 0
    /\ out = NoOut
    /\ catalog = EmptyCatalog

NextOverlay ==
    /\ \/ Tick
       \/ \E pk \in {1} : OverlayCheck(pk)
    /\ UNCHANGED <<themeVars, settingsVars>>
    /\ UNCHANGED catalog

SpecOverlay == InitOverlay /\ [][NextOverlay]_vars

\* Theme.resolve_style_vars of the one theme, as the days pass; style 1 is the
\* base style, style 2 the style of overlay 1
ResolveStyles ==
    {[BlankStyle EXCEPT !.primary_font = f, !.primary_bg_color = c] :
        f \in FontSample, c \in ColorSample}

InitResolve ==
    /\ \E b \in {0, 1} :
        themeTable = (1 :> [name |-> 1, is_active |-> TRUE, base_style |-> b,
                            theme_directory |-> "classic"])
    /\ thObj = [p \in Procs |-> NoObj]
    /\ thPc = [p \in Procs |-> "idle"]
    /\ thSnap = [p \in Procs |-> {}]
    /\ \/ settingsTable = EmptyTable
       \/ \E ov \in {0, 1} :
            settingsTable = (1 :> [SettingsRowOf(DefaultSettings)
                                        EXCEPT !.active_overlay = ov])
    /\ ssObj = [p \in Procs |-> NoObj]
    /\ ssPc = [p \in Procs |-> "idle"]
    /\ \E s1 \in ResolveStyles, s2 \in ResolveStyles :
            styleTable = (1 :> s1) @@ (2 :> s2)
    /\ \E o \in AllOverlays : overlayTable = (1 :> [o EXCEPT !.style = 2])
    /\ today = 0
    /\ out = NoOut
    /\ catalog = EmptyCatalog

NextResolve ==
    /\ \/ Tick /\ UNCHANGED settingsTable
       \/ \E t \in {1} : Resolve(t)
    /\ UNCHANGED <<themeVars, ssObj, ssPc>>
    /\ UNCHANGED catalog

SpecResolve == InitResolve /\ [][NextResolve]_vars

\* ---------------------------------------------------------------------
\* The font URL over styles whose font fields vary: the palette has Google
\* fonts, both system fonts and a value that FONT_CHOICES does not list
\* (save() does not validate choices).

FontPalette ==
    {"", "Georgia, serif", "\"Courier New\", monospace",
     "\"Lato\", sans-serif", "\"Inter\", sans-serif",
     "\"Playfair Display\", serif", "\"Comic Sans MS\", cursive"}

BaseFontStyles ==
    {[BlankStyle EXCEPT !.primary_font = f1, !.secondary_font = f2,
                        !.accent_font = f3] :
        f1 \in FontPalette,
        f2 \in {"", "Georgia, serif", "\"Lato\", sans-serif",
                "\"Inter\", sans-serif"},
        f3 \in {"", "\"Courier New\", monospace",
                "\"Playfair Display\", serif"}}

OverlayFontStyles ==
    {[BlankStyle EXCEPT !.primary_font = f1, !.secondary_font = f2,
                        !.accent_font = f3] :
        f1 \in FontPalette,
        f2 \in {"", "\"Lato\", sans-serif", "\"Inter\", sans-serif"},
        f3 \in {"", "\"Playfair Display\", serif"}}

\* overlays switched by the flag alone and by a window around today
FontOverlays ==
    {[style |-> 2, valid_from |-> NullDate, valid_to |-> NullDate,
      is_active |-> b] : b \in BOOLEAN}
    \cup {[style |-> 2, valid_from |-> <<0>>, valid_to |-> <<0>>,
           is_active |-> FALSE],
          [style |-> 2, valid_from |-> <<MaxDay>>, valid_to |-> <<MaxDay>>,
           is_active |-> TRUE]}

InitFonts ==
    /\ \E b \in {0, 1} :
        themeTable = (1 :> [name |-> 1, is_active |-> TRUE, base_style |-> b,
                            theme_directory |-> "classic"])
    /\ thObj = [p \in Procs |-> NoObj]
    /\ thPc = [p \in Procs |-> "idle"]
    /\ thSnap = [p \in Procs |-> {}]
    /\ \/ settingsTable = EmptyTable
       \/ \E ov \in {0, 1} :
            settingsTable = (1 :> [SettingsRowOf(DefaultSettings)
                                        EXCEPT !.active_overlay = ov])
    /\ ssObj = [p \in Procs |-> NoObj]
    /\ ssPc = [p \in Procs |-> "idle"]
    /\ \E s1 \in BaseFontStyles, s2 \in OverlayFontStyles :
            styleTable = (1 :> s1) @@ (2 :> s2)
    /\ \E o \in FontOverlays : overlayTable = (1 :> o)
    /\ today = 0
    /\ out = NoOut
    /\ catalog = EmptyCatalog

NextFonts ==
    /\ \E t \in {1} : FontsUrl(t)
    /\ UNCHANGED <<themeVars, ssObj, ssPc>>
    /\ UNCHANGED catalog

SpecFonts == InitFonts /\ [][NextFonts]_vars

\* ---------------------------------------------------------------------
\* Page rendering over site configurations: two themes, three styles, two
\* overlays; any of the themes active, SiteSettings absent or referring to
\* any theme and any overlay.

RenderStyles ==
    {BlankStyle,
     [BlankStyle EXCEPT !.primary_font = "\"Lato\", sans-serif",
                        !.primary_bg_color = "#0a0a0a"],
     [BlankStyle EXCEPT !.primary_font = "\"Comic Sans MS\", cursive",
                        !.secondary_font = "Georgia, serif"],
     [BlankStyle EXCEPT !.primary_font = "\"Inter\", sans-serif",
                        !.accent_bg_color = "#c9972a"]}

InitRender ==
    /\ \E a1 \in BOOLEAN, a2 \in BOOLEAN, b \in {0, 1} :
        themeTable =
            (1 :> [name |-> 1, is_active |-> a1, base_style |-> b,
                   theme_directory |-> "classic"])
            @@ (2 :> [name |-> 2, is_active |-> a2, base_style |-> 0,
                      theme_directory |-> "modern"])
    /\ thObj = [p \in Procs |-> NoObj]
    /\ thPc = [p \in Procs |-> "idle"]
    /\ thSnap = [p \in Procs |-> {}]
    /\ \/ settingsTable = EmptyTable
       \/ \E th \in {0, 1, 2}, ov \in {0, 1, 2} :
            settingsTable = (1 :> [SettingsRowOf(DefaultSettings)
                                        EXCEPT !.active_theme = th,
                                               !.active_overlay = ov])
    /\ ssObj = [p \in Procs |-> NoObj]
    /\ ssPc = [p \in Procs |-> "idle"]
    /\ \E s1 \in RenderStyles, s2 \in RenderStyles, s3 \in RenderStyles :
            styleTable = (1 :> s1) @@ (2 :> s2) @@ (3 :> s3)
    /\ \E o1 \in FontOverlays, b2 \in BOOLEAN :
            overlayTable =
                (1 :> o1)
                @@ (2 :> [style |-> 3, valid_from |-> NullDate,
                          valid_to |-> NullDate, is_active |-> b2])
    /\ today = 0
    /\ out = NoOut
    /\ catalog = EmptyCatalog

NextRender ==
    /\ \/ Render
       \/ \E t \in ThemePks : Resolve(t)
       \/ \E t \in ThemePks : FontsUrl(t)
    /\ UNCHANGED <<themeVars, ssObj, ssPc>>
    /\ UNCHANGED catalog

SpecRender == InitRender /\ [][NextRender]_vars

\* rendering while an administrator changes SiteSettings.active_theme
NextSelect ==
    /\ \/ Render
       \/ \E v \in ThemePks \cup {0} : SetActiveTheme(v)
    /\ UNCHANGED <<themeVars, ssObj, ssPc>>
    /\ UNCHANGED catalog

SpecSelect == InitRender /\ [][NextSelect]_vars

\* ---------------------------------------------------------------------
\* Deletions over a site with three styles, two overlays and two themes.

StylePks == 1..3
OverlayPks == 1..2

InitAdmin ==
    /\ \E b1 \in {0, 1, 2}, b2 \in {0, 2} :
        themeTable =
            (1 :> [name |-> 1, is_active |-> TRUE, base_style |-> b1,
                   theme_directory |-> "classic"])
            @@ (2 :> [name |-> 2, is_active |-> FALSE, base_style |-> b2,
                      theme_directory |-> "modern"])
    /\ thObj = [p \in Procs |-> NoObj]
    /\ thPc = [p \in Procs |-> "idle"]
    /\ thSnap = [p \in Procs |-> {}]
    /\ \/ settingsTable = EmptyTable
       \/ \E th \in {0, 1}, ov \in {0, 1, 2} :
            settingsTable = (1 :> [SettingsRowOf(DefaultSettings)
                                        EXCEPT !.active_theme = th,
                                               !.active_overlay = ov])
    /\ ssObj = [p \in Procs |-> NoObj]
    /\ ssPc = [p \in Procs |-> "idle"]
    /\ styleTable =
        (1 :> [BlankStyle EXCEPT !.primary_font = "\"Lato\", sans-serif",
                                 !.primary_bg_color = "#0a0a0a"])
        @@ (2 :> [BlankStyle EXCEPT !.primary_font = "\"Inter\", sans-serif",
                                    !.accent_bg_color = "#c9972a"])
        @@ (3 :> [BlankStyle EXCEPT !.secondary_font = "Georgia, serif"])
    /\ \E a1 \in BOOLEAN, s2 \in {2, 3} :
            overlayTable =
                (1 :> [style |-> 2, valid_from |-> NullDate,
                       valid_to |-> NullDate, is_active |-> a1])
                @@ (2 :> [style |-> s2, valid_from |-> NullDate,
                          valid_to |-> NullDate, is_active |-> TRUE])
    /\ today = 0
    /\ out = NoOut
    /\ catalog = EmptyCatalog

NextAdmin ==
    /\ \/ \E pk \in StylePks : DeleteStyle(pk)
       \/ \E pk \in OverlayPks : DeleteOverlay(pk)
       \/ \E pk \in ThemePks : DeleteTheme(pk)
       \/ Render /\ UNCHANGED themeTable
       \/ \E t \in ThemePks : Resolve(t) /\ UNCHANGED themeTable
       \/ \E t \in ThemePks : FontsUrl(t) /\ UNCHANGED themeTable
    /\ UNCHANGED <<thObj, thPc, thSnap, ssObj, ssPc>>
    /\ UNCHANGED catalog

SpecAdmin == InitAdmin /\ [][NextAdmin]_vars

\* The publication workflow of Event and Promotion rows: change-form saves
\* and the admin actions, on tables that start empty, while the clock runs
NextPublish ==
    /\ \/ Tick /\ UNCHANGED catalog
       \/ \E m \in EventModels, pk \in {1}, st \in EVENT_STATUS : EventSave(m, pk, st)
       \/ \E m \in EventModels, sel \in SUBSET {1} : publish_events(m, sel)
       \/ \E m \in EventModels, sel \in SUBSET {1} : unpublish_events(m, sel)
       \/ \E m \in EventModels, sel \in SUBSET {1} : mark_as_completed(m, sel)
    /\ UNCHANGED <<themeVars, settingsVars>>

SpecPublish == InitTheme /\ [][NextPublish]_vars

\* The derived properties of one stored row (an Event, a Promotion or a
\* MenuItem) with every combination of the fields they read
InitCatalog ==
    /\ ThemeInit /\ SettingsInit
    /\ styleTable = EmptyTable
    /\ overlayTable = EmptyTable
    /\ today = 0
    /\ out = NoOut
    /\ \/ \E m \in EventModels, sd \in Days, ed \in OptDays, hr \in BOOLEAN,
             mc \in {<<>>} \cup {<<n>> : n \in 0..MaxCapacity},
             cr \in 0..(MaxCapacity + 1), dl \in OptDays :
            catalog = [EmptyCatalog EXCEPT ![m] =
                (1 :> [BlankEvent EXCEPT !.start_date = sd, !.end_date = ed,
                                         !.has_registration = hr,
                                         !.max_capacity = mc,
                                         !.current_registrations = cr,
                                         !.registration_deadline = dl])]
       \/ \E p \in 1..MaxPrice, sp \in {<<>>} \cup {<<n>> : n \in 0..(MaxPrice + 1)} :
            catalog = [EmptyCatalog EXCEPT !["MenuItem"] =
                (1 :> [price |-> p, sale_price |-> sp])]

NextCatalog ==
    /\ \/ Tick /\ UNCHANGED catalog
       \/ \E m \in EventModels, pk \in {1} : EventDisplay(m, pk)
       \/ \E pk \in {1} : MenuItemDisplay(pk)
    /\ UNCHANGED <<themeVars, settingsVars>>

SpecCatalog == InitCatalog /\ [][NextCatalog]_vars





----------------------------------------------------------------------------
(* Claims about Theme.save *)

\* C1: after any sequence of Theme.save() calls run one after the other, at
\* most one Theme row has is_active = true; and a save() of an instance whose
\* is_active is true leaves that instance's row as the only active one.
C1_AtMostOneActiveTheme ==
    /\ [](Cardinality(ActiveThemes(themeTable)) <= 1)
    /\ [][\A p \in Procs :
            (ThemeSave(p) /\ thObj[p].is_active)
                => ActiveThemes(themeTable') = {thObj'[p].pk}]_vars

\* q saved Theme A active, then p saved Theme B active: A's row is cleared
\* (q's instance is stale) and B is the only active Theme
C1_Witness ==
    \E p, q \in Procs :
        /\ thPc[p] = "done" /\ thPc[q] = "done"
        /\ thObj[p].is_active /\ thObj[q].is_active
        /\ thObj[p].pk # thObj[q].pk
        /\ ~themeTable[thObj[q].pk].is_active
        /\ ActiveThemes(themeTable) = {thObj[p].pk}

\* C2: when two save() calls that each set a different Theme active have both
\* completed, whatever the order of their statements, exactly one Theme is active.
C2_ConcurrentActivationsLeaveOne ==
    \A p, q \in Procs :
        ( /\ p # q
          /\ thPc[p] = "done" /\ thPc[q] = "done"
          /\ thObj[p].is_active /\ thObj[q].is_active
          /\ thObj[p].pk # thObj[q].pk )
        => Cardinality(ActiveThemes(themeTable)) = 1

\* C3: while a save() that activates a Theme is running, and exactly one other
\* Theme was active when it started, every state another connection can read
\* has exactly one active Theme (get_active_theme never returns None).
C3_ActivationIsAtomic ==
    \A p \in Procs :
        ( /\ thPc[p] = "saving"
          /\ thObj[p].is_active
          /\ Cardinality(thSnap[p]) = 1
          /\ thObj[p].pk \notin thSnap[p] )
        => /\ Cardinality(ActiveThemes(themeTable)) = 1
           /\ get_active_theme(themeTable) # 0

----------------------------------------------------------------------------
(* Claims about SiteSettings *)

\* C4: through any sequence of load() and save() calls (save of a loaded or of
\* a freshly constructed instance) at most one SiteSettings row exists and its
\* pk is 1; once a load() has returned exactly one row exists and no call
\* removes it; a load() on an empty table creates the row with the default
\* field values; a load() on an existing row returns it and changes no field.
C4_SettingsSingleton ==
    /\ [](DOMAIN settingsTable \subseteq {1})
    /\ [](\A p \in Procs : SSLoaded(p) => DOMAIN settingsTable = {1})
    /\ [][DOMAIN settingsTable \subseteq DOMAIN settingsTable']_vars
    /\ [][\A p \in Procs :
            (SSLoad(p) /\ settingsTable = EmptyTable)
                => /\ settingsTable'[1] = SettingsRowOf(DefaultSettings)
                   /\ ssObj'[p] = [DefaultSettings EXCEPT !.pk = 1]]_vars
    /\ [][\A p \in Procs :
            (SSLoad(p) /\ settingsTable # EmptyTable)
                => /\ settingsTable' = settingsTable
                   /\ ssObj'[p] = SettingsObjOf(settingsTable, 1)]_vars

\* a load() returned the row that a save() of another instance had written
C4_Witness ==
    \E p, q \in Procs :
        /\ ssPc[p] = "got" /\ ssPc[q] = "saved"
        /\ DOMAIN settingsTable = {1}
        /\ settingsTable[1].restaurant_name = "Soho"
        /\ ssObj[p] = SettingsObjOf(settingsTable, 1)

\* C5: load() calls that race on an empty table never end in an error, every
\* one of them returns an object of the row with pk 1, and that row is the
\* only one persisted.
C5_ConcurrentFirstLoad ==
    /\ DOMAIN settingsTable \subseteq {1}
    /\ \A p \in Procs :
        /\ ssPc[p] # "load_error"
        /\ SSLoaded(p) => (ssObj[p].pk = 1 /\ DOMAIN settingsTable = {1})

\* two load() calls both missed the row; one created it, the other hit the
\* primary key and fetched the row again
C5_Witness ==
    \E p, q \in Procs :
        /\ ssPc[p] = "created" /\ ssPc[q] = "regot"
        /\ ssObj[p].pk = 1 /\ ssObj[q].pk = 1
        /\ DOMAIN settingsTable = {1}

----------------------------------------------------------------------------
(* Claims about ThemeOverlay.is_currently_active *)

\* the window [valid_from, valid_to] is complete and day d lies in it
InWindow(o, d) ==
    /\ o.valid_from # NullDate /\ o.valid_to # NullDate
    /\ o.valid_from[1] <= d /\ d <= o.valid_to[1]

CompleteWindow(o) == o.valid_from # NullDate /\ o.valid_to # NullDate

\* C6: for an overlay with both valid_from and valid_to set,
\* is_currently_active is true exactly when valid_from <= today <= valid_to,
\* whatever the manual is_active flag.
C6_CompleteWindowDecides ==
    out.op = "is_currently_active" =>
        LET o == overlayTable[out.overlay] IN
        CompleteWindow(o) => (out.val <=> InWindow(o, out.day))

\* active on the last day of the window with the manual flag off
C6_Witness ==
    /\ out.op = "is_currently_active"
    /\ LET o == overlayTable[out.overlay] IN
        /\ CompleteWindow(o)
        /\ o.valid_from[1] < o.valid_to[1]
        /\ out.day = o.valid_to[1]
        /\ ~o.is_active
        /\ out.val

\* C7: for an overlay whose window is incomplete (valid_from unset, valid_to
\* unset, or both) is_currently_active equals the manual is_active flag on
\* every day; a one-sided bound never restricts it.
C7_IncompleteWindowUsesFlag ==
    out.op = "is_currently_active" =>
        LET o == overlayTable[out.overlay] IN
        ~CompleteWindow(o) => (out.val <=> o.is_active)

\* valid_from lies in the future, valid_to is unset, the flag is on: active
C7_Witness ==
    /\ out.op = "is_currently_active"
    /\ LET o == overlayTable[out.overlay] IN
        /\ o.valid_from # NullDate /\ o.valid_to = NullDate
        /\ out.day < o.valid_from[1]
        /\ o.is_active
        /\ out.val

----------------------------------------------------------------------------
(* Claims about ThemeStyle.to_css_vars and Theme.resolve_style_vars *)

\* the style field each CSS variable name stands for
FieldOf ==
    [k \in {"font-primary", "font-secondary", "font-accent",
             "color-text-primary", "color-text-secondary", "color-text-accent",
             "color-text-heading", "color-bg-primary", "color-bg-secondary",
             "color-bg-accent", "color-nav-bg"} |->
        CASE k = "font-primary" -> "primary_font"
          [] k = "font-secondary" -> "secondary_font"
          [] k = "font-accent" -> "accent_font"
          [] k = "color-text-primary" -> "primary_text_color"
          [] k = "color-text-secondary" -> "secondary_text_color"
          [] k = "color-text-accent" -> "accent_text_color"
          [] k = "color-text-heading" -> "heading_text_color"
          [] k = "color-bg-primary" -> "primary_bg_color"
          [] k = "color-bg-secondary" -> "secondary_bg_color"
          [] k = "color-bg-accent" -> "accent_bg_color"
          [] k = "color-nav-bg" -> "nav_bg_color"]

\* the names whose field of style s is not blank
SetKeys(s) == {k \in DOMAIN FieldOf : s[FieldOf[k]] # ""}

\* the overlay SiteSettings refers to (0 when there is no row or no overlay)
ReferencedOverlay ==
    IF 1 \in DOMAIN settingsTable THEN settingsTable[1].active_overlay ELSE 0

\* C8: the overlay's activation is evaluated against the date of each
\* resolution: with the data unchanged, an overlay with a complete window that
\* SiteSettings refers to contributes its keys to resolve_style_vars() on
\* every day from valid_from to valid_to, and nothing on any day before
\* valid_from or after valid_to.
C8_ResolutionUsesCurrentDate ==
    (out.op = "resolve_style_vars" /\ ReferencedOverlay # 0) =>
        LET o == overlayTable[ReferencedOverlay]
            base == BaseLayer(themeTable[out.theme])
            over == to_css_vars(styleTable[o.style])
        IN CompleteWindow(o) =>
            /\ InWindow(o, out.day) =>
                    /\ DOMAIN out.vars = DOMAIN base \cup DOMAIN over
                    /\ \A k \in DOMAIN over : out.vars[k] = over[k]
            /\ ~InWindow(o, out.day) => out.vars = base

\* a resolution after the last day of a window that had begun: the overlay's
\* keys are gone although its manual flag is on
C8_Witness ==
    /\ out.op = "resolve_style_vars" /\ ReferencedOverlay # 0
    /\ LET o == overlayTable[ReferencedOverlay] IN
        /\ CompleteWindow(o)
        /\ 0 < o.valid_from[1] /\ o.valid_from[1] <= o.valid_to[1]
        /\ o.valid_to[1] < out.day
        /\ o.is_active
        /\ to_css_vars(styleTable[o.style]) # EmptyDict
        /\ out.vars = BaseLayer(themeTable[out.theme])
        /\ DOMAIN to_css_vars(styleTable[o.style]) \ DOMAIN out.vars # {}

\* C9: the keys of to_css_vars() are exactly the names, among the 11 CSS
\* variable names, whose field of the style is not blank, each with that
\* field's value.
C9_OnlyNonBlankFields ==
    out.op = "to_css_vars" =>
        LET s == styleTable[out.style] IN
        /\ Cardinality(DOMAIN FieldOf) = 11
        /\ DOMAIN out.vars = SetKeys(s)
        /\ \A k \in DOMAIN out.vars : out.vars[k] = s[FieldOf[k]]

\* a style with a font and a colour set and other fields blank
C9_Witness ==
    /\ out.op = "to_css_vars"
    /\ LET s == styleTable[out.style] IN
        /\ s.primary_font # "" /\ s.accent_font = ""
        /\ s.nav_bg_color # "" /\ s.primary_bg_color = ""
        /\ "font-primary" \in DOMAIN out.vars
        /\ "font-accent" \notin DOMAIN out.vars
        /\ "color-bg-primary" \notin DOMAIN out.vars

\* the overlay SiteSettings refers to is active on day d
ReferencedOverlayActiveOn(d) ==
    /\ ReferencedOverlay # 0
    /\ LET o == overlayTable[ReferencedOverlay] IN
        IF CompleteWindow(o) THEN InWindow(o, d) ELSE o.is_active

\* C10: when the overlay SiteSettings refers to is currently active, every
\* key set both in the base style and in the overlay's style resolves to the
\* overlay's value.
C10_OverlayWins ==
    (out.op = "resolve_style_vars" /\ ReferencedOverlayActiveOn(out.day)) =>
        LET t == themeTable[out.theme]
            os == styleTable[overlayTable[ReferencedOverlay].style]
        IN t.base_style # 0 =>
            \A k \in SetKeys(styleTable[t.base_style]) \cap SetKeys(os) :
                /\ k \in DOMAIN out.vars
                /\ out.vars[k] = os[FieldOf[k]]

\* base and overlay set the same key to different values
C10_Witness ==
    /\ out.op = "resolve_style_vars" /\ ReferencedOverlayActiveOn(out.day)
    /\ themeTable[out.theme].base_style # 0
    /\ LET bs == styleTable[themeTable[out.theme].base_style]
           os == styleTable[overlayTable[ReferencedOverlay].style]
       IN /\ bs.primary_font # "" /\ os.primary_font # ""
          /\ bs.primary_font # os.primary_font
          /\ out.vars["font-primary"] = os.primary_font
          /\ bs.primary_bg_color # "" /\ os.primary_bg_color = ""
          /\ out.vars["color-bg-primary"] = bs.primary_bg_color

\* the style of the theme's base layer and of the referenced overlay, as
\* sets of keys with their values (the empty mapping for a missing style)
BaseVars(t) ==
    IF themeTable[t].base_style # 0
    THEN [k \in SetKeys(styleTable[themeTable[t].base_style]) |->
            styleTable[themeTable[t].base_style][FieldOf[k]]]
    ELSE EmptyDict

OverlayVars ==
    IF ReferencedOverlay # 0
    THEN LET os == styleTable[overlayTable[ReferencedOverlay].style] IN
         [k \in SetKeys(os) |-> os[FieldOf[k]]]
    ELSE EmptyDict

\* C11: the key set of resolve_style_vars() is the union of the base style's
\* keys and the active overlay's keys: a key only the base sets has the
\* base's value, a key only the active overlay sets has the overlay's value,
\* and a key neither sets is absent.
C11_MergeIsUnion ==
    out.op = "resolve_style_vars" =>
        LET base == BaseVars(out.theme)
            over == IF ReferencedOverlayActiveOn(out.day) THEN OverlayVars
                    ELSE EmptyDict
        IN /\ DOMAIN out.vars = DOMAIN base \cup DOMAIN over
           /\ \A k \in DOMAIN base \ DOMAIN over : out.vars[k] = base[k]
           /\ \A k \in DOMAIN over \ DOMAIN base : out.vars[k] = over[k]
           /\ \A k \in DOMAIN FieldOf \ (DOMAIN base \cup DOMAIN over) :
                k \notin DOMAIN out.vars

\* the base alone sets the background colour, the active overlay alone the
\* font, and both arrive in the result
C11_Witness ==
    /\ out.op = "resolve_style_vars" /\ ReferencedOverlayActiveOn(out.day)
    /\ DOMAIN BaseVars(out.theme) = {"color-bg-primary"}
    /\ DOMAIN OverlayVars = {"font-primary"}
    /\ DOMAIN out.vars = {"color-bg-primary", "font-primary"}
    /\ out.vars["color-bg-primary"] = BaseVars(out.theme)["color-bg-primary"]
    /\ out.vars["font-primary"] = OverlayVars["font-primary"]

\* C12: a missing layer contributes nothing: with no overlay referenced, or
\* the referenced overlay not currently active, resolve_style_vars() equals
\* the base style's to_css_vars() (the empty mapping without a base style);
\* with no base style it equals the active overlay's mapping.
C12_MissingLayerContributesNothing ==
    out.op = "resolve_style_vars" =>
        /\ ~ReferencedOverlayActiveOn(out.day) =>
                out.vars = BaseVars(out.theme)
        /\ (themeTable[out.theme].base_style = 0
            /\ ReferencedOverlayActiveOn(out.day)) => out.vars = OverlayVars
        /\ (themeTable[out.theme].base_style = 0
            /\ ~ReferencedOverlayActiveOn(out.day)) => out.vars = EmptyDict

\* an overlay is referenced and its style sets keys, but it is not active on
\* the day of the call: the result is the base style's mapping
C12_Witness ==
    /\ out.op = "resolve_style_vars"
    /\ ReferencedOverlay # 0 /\ ~ReferencedOverlayActiveOn(out.day)
    /\ OverlayVars # EmptyDict
    /\ BaseVars(out.theme) # EmptyDict
    /\ out.vars = BaseVars(out.theme)
    /\ DOMAIN OverlayVars \ DOMAIN out.vars # {}

\* the two fonts that GOOGLE_FONTS_MAP marks as needing no import
SystemFonts == {"Georgia, serif", "\"Courier New\", monospace"}

\* the values of the font-role fields of the layers in force on day d: the
\* three of the theme's base style and the three of the style of the
\* referenced overlay, when it is active
DeclaredFonts(t, d) ==
    (IF themeTable[t].base_style # 0
     THEN LET bs == styleTable[themeTable[t].base_style] IN
          {bs.primary_font, bs.secondary_font, bs.accent_font}
     ELSE {})
    \cup
    (IF ReferencedOverlayActiveOn(d)
     THEN LET os == styleTable[overlayTable[ReferencedOverlay].style] IN
          {os.primary_font, os.secondary_font, os.accent_font}
     ELSE {})

\* the Google families of the declared fonts
DeclaredFamilies(t, d) ==
    {GOOGLE_FONTS_MAP[f] :
        f \in (DeclaredFonts(t, d) \cap DOMAIN GOOGLE_FONTS_MAP)
                \ SystemFonts}

\* how often a piece occurs in a URL
Occurrences(url, x) == Cardinality({i \in 1..Len(url) : url[i] = x})

\* the family parameters of a URL: the pieces after each "family="
UrlFamilyAt(url) == {i \in 2..(Len(url) - 1) : i % 2 = 0}

FontsUrlReturned ==
    out.op = "get_google_fonts_url" /\ ~out.raised

\* C14: in the URL of get_google_fonts_url() every font family occurs
\* exactly once, however many of the six font-role fields declare it.
C14_EachFamilyOnce ==
    (FontsUrlReturned /\ out.url # NoUrl) =>
        /\ \A fam \in DeclaredFamilies(out.theme, out.day) :
                Occurrences(out.url, fam) = 1
        /\ \A i \in UrlFamilyAt(out.url) : Occurrences(out.url, out.url[i]) = 1

\* Lato is the primary and the secondary font of the base style and the
\* primary font of the active overlay's style, and the URL has it once
C14_Witness ==
    /\ FontsUrlReturned /\ ReferencedOverlayActiveOn(out.day)
    /\ themeTable[out.theme].base_style # 0
    /\ LET bs == styleTable[themeTable[out.theme].base_style]
           os == styleTable[overlayTable[ReferencedOverlay].style]
       IN /\ bs.primary_font = "\"Lato\", sans-serif"
          /\ bs.secondary_font = "\"Lato\", sans-serif"
          /\ os.primary_font = "\"Lato\", sans-serif"
          /\ os.secondary_font = "\"Inter\", sans-serif"
    /\ Occurrences(out.url, GOOGLE_FONTS_MAP["\"Lato\", sans-serif"]) = 1
    /\ Occurrences(out.url, GOOGLE_FONTS_MAP["\"Inter\", sans-serif"]) = 1

\* C15 as the specification states it: get_google_fonts_url() returns None
\* exactly when no font remains among the declared ones once the blank
\* fields and the two system fonts are left out, and no system font is a
\* family parameter of a URL.
C15_NoneIffOnlySystemOrBlank ==
    FontsUrlReturned =>
        /\ out.url = NoUrl <=>
            (DeclaredFonts(out.theme, out.day) \ ({""} \cup SystemFonts)) = {}
        /\ \A i \in UrlFamilyAt(out.url) :
            out.url[i] \notin {GOOGLE_FONTS_MAP[f] : f \in SystemFonts}
                                \cup SystemFonts

\* C15, amended: get_google_fonts_url() returns None exactly when no font
\* remains among the declared ones once the blank fields, the two system
\* fonts and the values that GOOGLE_FONTS_MAP does not list are left out,
\* and no system font is a family parameter of a URL.
C15_NoneIffNoMappedFamily ==
    FontsUrlReturned =>
        /\ out.url = NoUrl <=>
            ((DeclaredFonts(out.theme, out.day) \cap DOMAIN GOOGLE_FONTS_MAP)
                \ ({""} \cup SystemFonts)) = {}
        /\ \A i \in UrlFamilyAt(out.url) :
            out.url[i] \notin {GOOGLE_FONTS_MAP[f] : f \in SystemFonts}
                                \cup SystemFonts

\* the layers in force declare both system fonts and nothing else but
\* blanks, and the call returns None
C15_Witness ==
    /\ FontsUrlReturned /\ ReferencedOverlayActiveOn(out.day)
    /\ themeTable[out.theme].base_style # 0
    /\ DeclaredFonts(out.theme, out.day) \ {""} = SystemFonts
    /\ styleTable[overlayTable[ReferencedOverlay].style].primary_font
            \in SystemFonts
    /\ out.url = NoUrl

\* C16: a URL of get_google_fonts_url() is the head
\* https://fonts.googleapis.com/css2?family=, the families separated by
\* &family=, and the tail &display=swap, with the families in strictly
\* ascending order of str and exactly the Google families declared: the one
\* such sequence for that set of families, whichever role or layer
\* declares each.
C16_CanonicalUrl ==
    (FontsUrlReturned /\ out.url # NoUrl) =>
        LET url == out.url
            n == Len(url)
        IN /\ n >= 3 /\ n % 2 = 1
           /\ url[1] = "https://fonts.googleapis.com/css2?family="
           /\ url[n] = "&display=swap"
           /\ \A i \in 2..(n - 1) : i % 2 = 1 => url[i] = "&family="
           /\ \A i \in UrlFamilyAt(url) : url[i] \in DOMAIN CodePoints
           /\ \A i \in UrlFamilyAt(url) :
                (i + 2) \in UrlFamilyAt(url) => StrLess(url[i], url[i + 2])
           /\ {url[i] : i \in UrlFamilyAt(url)}
                = DeclaredFamilies(out.theme, out.day)

\* the overlay declares Inter and Lato, the base style Playfair Display and
\* Lato again: the URL lists Inter, Lato, Playfair Display
C16_Witness ==
    /\ FontsUrlReturned /\ ReferencedOverlayActiveOn(out.day)
    /\ themeTable[out.theme].base_style # 0
    /\ LET bs == styleTable[themeTable[out.theme].base_style]
           os == styleTable[overlayTable[ReferencedOverlay].style]
       IN /\ bs.primary_font = "\"Playfair Display\", serif"
          /\ bs.secondary_font = "\"Lato\", sans-serif"
          /\ os.primary_font = "\"Lato\", sans-serif"
          /\ os.secondary_font = "\"Inter\", sans-serif"
    /\ out.url = <<"https://fonts.googleapis.com/css2?family=",
                   "Inter:wght@300;400;500;600;700", "&family=",
                   "Lato:ital,wght@0,300;0,400;0,700;1,300;1,400", "&family=",
                   "Playfair+Display:ital,wght@0,400;0,600;0,700;0,900;1,400",
                   "&display=swap">>

\* C13: when no Theme has is_active set, the active_theme context processor
\* returns no theme, theme_directory 'default', an empty variable map and
\* google_fonts_url None, whatever overlay SiteSettings refers to.
C13_NoActiveThemeDefaults ==
    (out.op = "active_theme" /\ \A t \in DOMAIN themeTable :
                                    ~themeTable[t].is_active) =>
        /\ ~out.raised
        /\ out.context.active_theme = 0
        /\ out.context.theme_directory = "default"
        /\ out.context.theme_style_vars = EmptyDict
        /\ out.context.google_fonts_url = NoUrl

\* no theme is active while SiteSettings refers to an overlay that is
\* active and whose style sets a font of Google's and a colour
C13_Witness ==
    /\ out.op = "active_theme"
    /\ \A t \in DOMAIN themeTable : ~themeTable[t].is_active
    /\ ReferencedOverlayActiveOn(out.day)
    /\ DOMAIN OverlayVars = {"font-primary", "color-bg-primary"}
    /\ OverlayVars["font-primary"] = "\"Lato\", sans-serif"
    /\ out.context.theme_style_vars = EmptyDict
    /\ out.context.google_fonts_url = NoUrl
    /\ out.context.theme_directory = "default"

\* C17: resolution never raises: in every configuration (base style or
\* none, SiteSettings row absent or present, overlay reference null or set,
\* overlay active or not, fonts blank, system fonts or values outside
\* GOOGLE_FONTS_MAP) resolve_style_vars(), get_google_fonts_url() and the
\* active_theme context processor return a value.
C17_ResolutionNeverRaises ==
    out.op \in {"resolve_style_vars", "get_google_fonts_url", "active_theme"}
        => ~out.raised

\* the context processor returned for a theme whose base style has a font
\* outside GOOGLE_FONTS_MAP and a system font, with an overlay referenced
\* that is not active: the map has the base's fonts and there is no URL
C17_Witness ==
    /\ out.op = "active_theme" /\ ~out.raised
    /\ out.context.active_theme # 0
    /\ themeTable[out.context.active_theme].base_style # 0
    /\ LET bs == styleTable[themeTable[out.context.active_theme].base_style]
       IN /\ bs.primary_font \notin DOMAIN GOOGLE_FONTS_MAP
          /\ bs.primary_font # ""
          /\ bs.secondary_font \in SystemFonts
          /\ out.context.theme_style_vars["font-primary"] = bs.primary_font
    /\ ReferencedOverlay # 0 /\ ~ReferencedOverlayActiveOn(out.day)
    /\ out.context.google_fonts_url = NoUrl

\* the overlays that are currently active on day d
ActiveOverlaysOn(d) ==
    {o \in DOMAIN overlayTable :
        IF CompleteWindow(overlayTable[o]) THEN InWindow(overlayTable[o], d)
        ELSE overlayTable[o].is_active}

\* C19: only the overlay SiteSettings.active_overlay refers to affects
\* resolution: every key of resolve_style_vars() is set by the base style
\* or by the referenced overlay's style when that overlay is active, with
\* that layer's value, and every family of get_google_fonts_url() is
\* declared by one of those two; another overlay, though active,
\* contributes nothing.
C19_OnlyReferencedOverlay ==
    /\ (out.op = "resolve_style_vars" /\ ~out.raised) =>
        LET base == BaseVars(out.theme)
            over == IF ReferencedOverlayActiveOn(out.day) THEN OverlayVars
                    ELSE EmptyDict
        IN \A k \in DOMAIN out.vars :
            \/ k \in DOMAIN over /\ out.vars[k] = over[k]
            \/ k \in DOMAIN base /\ out.vars[k] = base[k]
    /\ FontsUrlReturned =>
        \A i \in UrlFamilyAt(out.url) :
            out.url[i] \in DeclaredFamilies(out.theme, out.day)

\* an overlay that SiteSettings does not refer to is active and its style
\* sets a font; the resolved map has nothing of it
C19_Witness ==
    /\ out.op = "resolve_style_vars" /\ ~out.raised
    /\ \E o \in ActiveOverlaysOn(out.day) \ {ReferencedOverlay} :
        LET os == styleTable[overlayTable[o].style] IN
        /\ os.primary_font = "\"Inter\", sans-serif"
        /\ os.accent_bg_color # ""
        /\ "color-bg-accent" \notin DOMAIN out.vars
        /\ "font-primary" \in DOMAIN out.vars
        /\ out.vars["font-primary"] # os.primary_font
    /\ ReferencedOverlayActiveOn(out.day)

\* the SiteSettings.active_theme reference, 0 without a row or a theme
ReferencedTheme ==
    IF 1 \in DOMAIN settingsTable THEN settingsTable[1].active_theme ELSE 0

C18_ProtectedStyleDeleteRejected ==
    [][\A pk \in DOMAIN styleTable :
        (DeleteStyle(pk) /\ OverlaysOfStyle(pk) # {}) =>
            /\ out'.raised
            /\ styleTable' = styleTable
            /\ overlayTable' = overlayTable
            /\ themeTable' = themeTable
            /\ settingsTable' = settingsTable]_vars

\* a delete was rejected for a style that an overlay refers to and that a
\* theme has as base_style: style, overlay and theme are still in place
C18_Witness ==
    /\ out.op = "delete_style" /\ out.raised
    /\ out.pk \in DOMAIN styleTable
    /\ \E o \in DOMAIN overlayTable : overlayTable[o].style = out.pk
    /\ \E t \in DOMAIN themeTable : themeTable[t].base_style = out.pk

\* C21: once the SiteSettings row exists it exists in every later state the
\* admin can reach: every delete request is refused, whatever the object,
\* and an add request is refused whenever a row exists.
C21_SettingsRowNeverRemoved ==
    /\ [][DOMAIN settingsTable # {} =>
            DOMAIN settingsTable' = DOMAIN settingsTable]_vars
    /\ [](out.op = "admin_delete" => out.denied)
    /\ [][\A nm \in RestaurantNames :
            (AdminAddSettings(nm) /\ DOMAIN settingsTable # {}) =>
                /\ out'.denied
                /\ settingsTable' = settingsTable]_vars

\* a delete request was refused and the row is in place
C21_Witness ==
    /\ out.op = "admin_delete" /\ out.denied
    /\ DOMAIN settingsTable = {1}
    /\ settingsTable[1].restaurant_name = "Soho"

\* C22: a save() of a Theme whose is_active is false changes the is_active
\* flag of no other Theme; deactivating the only active Theme therefore
\* leaves no Theme active.
C22_InactiveSaveTouchesNoOther ==
    [][\A p \in Procs :
        (ThemeSave(p) /\ ~thObj[p].is_active) =>
            /\ \A t \in DOMAIN themeTable \ {thObj[p].pk} :
                    /\ t \in DOMAIN themeTable'
                    /\ themeTable'[t].is_active = themeTable[t].is_active
            /\ ActiveThemes(themeTable') =
                    ActiveThemes(themeTable) \ {thObj[p].pk}]_vars

\* q had saved a Theme active; p fetched it, cleared the flag and saved it:
\* of the two Themes none is active
C22_Witness ==
    \E p, q \in Procs :
        /\ thPc[p] = "done" /\ thPc[q] = "done"
        /\ thObj[p].pk = thObj[q].pk /\ thObj[p].pk \in DOMAIN themeTable
        /\ thObj[q].is_active /\ ~thObj[p].is_active
        /\ Cardinality(DOMAIN themeTable) = 2
        /\ ActiveThemes(themeTable) = {}

\* the Google families of the base style of theme t
BaseFamilies(t) ==
    IF themeTable[t].base_style = 0 THEN {}
    ELSE LET bs == styleTable[themeTable[t].base_style] IN
         {GOOGLE_FONTS_MAP[f] :
            f \in ({bs.primary_font, bs.secondary_font, bs.accent_font}
                    \cap DOMAIN GOOGLE_FONTS_MAP) \ SystemFonts}

\* C23: deleting the overlay that SiteSettings.active_overlay refers to
\* succeeds, keeps the SiteSettings row and sets its active_overlay to null;
\* the reference stays null, and every resolve_style_vars() after it equals
\* the base style's map and every get_google_fonts_url() is built from the
\* base style's fonts alone.
C23_ReferencedOverlayDeleteSetsNull ==
    /\ [][\A pk \in DOMAIN overlayTable :
            (DeleteOverlay(pk) /\ ReferencedOverlay = pk) =>
                /\ ~out'.raised
                /\ pk \notin DOMAIN overlayTable'
                /\ DOMAIN settingsTable' = DOMAIN settingsTable
                /\ settingsTable'[1] =
                        [settingsTable[1] EXCEPT !.active_overlay = 0]]_vars
    /\ [][(DOMAIN settingsTable # {} /\ ReferencedOverlay = 0) =>
            (DOMAIN settingsTable' # {} /\ ReferencedOverlay' = 0)]_vars
    /\ [][\A t \in DOMAIN themeTable :
            (Resolve(t) /\ DOMAIN settingsTable # {} /\ ReferencedOverlay = 0)
                => /\ ~out'.raised
                   /\ out'.vars = BaseVars(t)]_vars
    /\ [][\A t \in DOMAIN themeTable :
            (FontsUrl(t) /\ DOMAIN settingsTable # {} /\ ReferencedOverlay = 0)
                => /\ ~out'.raised
                   /\ {out'.url[i] : i \in UrlFamilyAt(out'.url)}
                        = BaseFamilies(t)]_vars

\* the referenced overlay has just been deleted: the SiteSettings row is in
\* place with a null reference, while another overlay is still active
C23_Witness ==
    /\ out.op = "delete_overlay" /\ out.referenced /\ ~out.raised
    /\ out.pk \notin DOMAIN overlayTable
    /\ DOMAIN settingsTable = {1}
    /\ settingsTable[1].active_overlay = 0
    /\ settingsTable[1].active_theme = 1
    /\ ActiveOverlaysOn(today) # {}

\* the values of the three font keys of a resolved map
ResolvedFonts(resolved) ==
    {resolved[k] : k \in {"font-primary", "font-secondary", "font-accent"}
                            \cap DOMAIN resolved}

\* C24: within one page render the font URL covers the resolved map: the
\* family of every Google font among the font-primary, font-secondary and
\* font-accent values of resolve_style_vars() is a parameter of
\* get_google_fonts_url(), and the URL's families are exactly the Google
\* families of the base style and of the active overlay together, a base
\* font whose role the overlay overrides included.
C24_FontUrlCoversResolvedMap ==
    (out.op = "active_theme" /\ ~out.raised
     /\ out.context.active_theme # 0) =>
        LET c == out.context
            fams == {c.google_fonts_url[i] :
                        i \in UrlFamilyAt(c.google_fonts_url)}
        IN /\ \A f \in (ResolvedFonts(c.theme_style_vars)
                            \cap DOMAIN GOOGLE_FONTS_MAP) \ SystemFonts :
                    GOOGLE_FONTS_MAP[f] \in fams
           /\ fams = DeclaredFamilies(c.active_theme, out.day)

\* the active overlay's Inter overrides the base style's Lato as primary
\* font, and the URL has both families
C24_Witness ==
    /\ out.op = "active_theme" /\ ~out.raised
    /\ out.context.active_theme # 0
    /\ ReferencedOverlayActiveOn(out.day)
    /\ themeTable[out.context.active_theme].base_style # 0
    /\ styleTable[themeTable[out.context.active_theme].base_style].primary_font
            = "\"Lato\", sans-serif"
    /\ out.context.theme_style_vars["font-primary"] = "\"Inter\", sans-serif"
    /\ out.context.google_fonts_url =
            <<"https://fonts.googleapis.com/css2?family=",
              "Inter:wght@300;400;500;600;700", "&family=",
              "Lato:ital,wght@0,300;0,400;0,700;1,300;1,400",
              "&display=swap">>

\* C25: an overlay with both bounds set and valid_from later than valid_to
\* is not currently active on any date, whatever its manual flag.
C25_InvertedWindowNeverActive ==
    out.op = "is_currently_active" =>
        LET o == overlayTable[out.overlay] IN
        (o.valid_from # NullDate /\ o.valid_to # NullDate
         /\ o.valid_from[1] > o.valid_to[1]) => ~out.val

\* an inverted window with the flag on, evaluated on a day between the two
\* bounds, is not active
C25_Witness ==
    /\ out.op = "is_currently_active"
    /\ LET o == overlayTable[out.overlay] IN
        /\ o.valid_from # NullDate /\ o.valid_to # NullDate
        /\ o.valid_to[1] < out.day /\ out.day < o.valid_from[1]
        /\ o.is_active
        /\ ~out.val

----------------------------------------------------------------------------
(* Claims about Event, Promotion and MenuItem *)

\* C26: after any sequence of change-form saves and of the admin actions
\* publish, unpublish and mark as completed, every Event and every Promotion
\* row whose status is 'published' has a published_date that is not NULL.
C26_PublishedHasDate ==
    \A m \in EventModels : \A pk \in DOMAIN catalog[m] :
        catalog[m][pk].status = "published"
            => DateSet(catalog[m][pk].published_date)

\* An Event published by the admin action after the clock moved, next to a
\* Promotion that was published and then marked as completed
C26_Witness ==
    /\ out.op = "publish" /\ out.model = "Event" /\ out.updated = {1}
    /\ today > 0
    /\ catalog["Event"][1].status = "published"
    /\ catalog["Event"][1].published_date = <<today>>
    /\ 1 \in DOMAIN catalog["Promotion"]
    /\ catalog["Promotion"][1].status = "completed"
    /\ DateSet(catalog["Promotion"][1].published_date)

\* C27: published_date records the first publication: once a row's
\* published_date is set, no later save or admin action (publish, unpublish,
\* mark as completed, in any order) changes it.
C27_PublishedDateKeepsFirstPublication ==
    [][\A m \in EventModels : \A pk \in DOMAIN catalog[m] :
            DateSet(catalog[m][pk].published_date)
                => catalog'[m][pk].published_date = catalog[m][pk].published_date]_vars

\* C28: for every Event and Promotion row and every day, at least one of
\* is_past, is_ongoing and is_upcoming holds, so the indicator is never
\* 'Unknown'; and while the row stays as it is, a later day never moves the
\* indicator backwards in the order Upcoming, Ongoing, Past - also when
\* end_date is unset or earlier than start_date.
C28_IndicatorTotalAndForward ==
    /\ [](\A m \in EventModels : \A pk \in DOMAIN catalog[m] :
            /\ \/ is_past(catalog[m][pk], today)
               \/ is_ongoing(catalog[m][pk], today)
               \/ is_upcoming(catalog[m][pk], today)
            /\ event_status_indicator(catalog[m][pk], today) # "Unknown")
    /\ [](out.op = "event_display" => out.indicator # "Unknown")
    /\ [][\A m \in EventModels : \A pk \in DOMAIN catalog[m] :
            catalog'[m] = catalog[m]
                => /\ event_status_indicator(catalog[m][pk], today) = "Past"
                        => event_status_indicator(catalog[m][pk], today') = "Past"
                   /\ event_status_indicator(catalog[m][pk], today) = "Ongoing"
                        => event_status_indicator(catalog[m][pk], today')
                                \in {"Ongoing", "Past"}]_vars
    /\ [][(out.op = "event_display" /\ out'.op = "event_display"
                /\ out'.row = out.row)
            => /\ out.indicator = "Past" => out'.indicator = "Past"
               /\ out.indicator = "Ongoing"
                    => out'.indicator \in {"Ongoing", "Past"}]_vars

\* A row without end_date shown as Past on the last day, after it had started
C28_Witness ==
    /\ out.op = "event_display"
    /\ out.row.end_date = NullDate
    /\ out.row.start_date < MaxDay
    /\ out.now = MaxDay
    /\ out.indicator = "Past"

\* C29: for a row with has_registration and a max_capacity that is not blank
\* (0 included): is_full holds iff current_registrations >= max_capacity,
\* spots_remaining is max(0, max_capacity - current_registrations), and
\* can_register is false whenever is_full holds.
C29_ZeroCapacityIsACapacity ==
    (/\ out.op = "event_display"
     /\ out.row.has_registration
     /\ out.row.max_capacity # <<>>)
        => /\ out.is_full
                <=> out.row.current_registrations >= out.row.max_capacity[1]
           /\ out.spots_remaining
                = <<Max({0, out.row.max_capacity[1] - out.row.current_registrations})>>
           /\ out.is_full => ~out.can_register
           /\ out.row.current_registrations >= out.row.max_capacity[1]
                => ~out.can_register

\* C30: for every sale_price (unset, zero, lower than, equal to or higher
\* than price), is_on_sale holds exactly when current_price is strictly lower
\* than price, and current_price is never higher than price.
C30_OnSaleIffCurrentPriceLower ==
    out.op = "menu_display"
        => /\ out.is_on_sale <=> out.current_price < out.item.price
           /\ out.current_price <= out.item.price

====
